---- MODULE Spec2Model ----
(***************************************************************************)
(* State-machine model of the rustness_monster NES core: the 2C02 PPU      *)
(* register file and scanline clock (src/src/ppu/ppu.rs), the address      *)
(* decoding Bus and the MockBus (src/src/bus/bus.rs) and the 6502          *)
(* interpreter (src/src/cpu/cpu.rs).                                       *)
(*                                                                         *)
(* Components are records; every method of the source is an operator from  *)
(* the component's record to its next record (and return value).  A Rust   *)
(* panic is the field `panic` set on the record; nothing executes after it.*)
(* Byte arrays are sparse functions: an index outside DOMAIN holds 0.      *)
(***************************************************************************)
EXTENDS Integers, Sequences, FiniteSets, TLC

VARIABLES cpu, bus, last, nmi_sets, ops

vars == <<cpu, bus, last, nmi_sets, ops>>

(***************************************************************************)
(* Bit and byte helpers                                                    *)
(***************************************************************************)
Pow2(k) == 2 ^ k

BitAt(v, k) == (v \div Pow2(k)) % 2

SetBit(v, k, b) == v - BitAt(v, k) * Pow2(k) + (IF b THEN Pow2(k) ELSE 0)

RECURSIVE AndBits(_, _, _)
AndBits(a, b, k) ==
    IF k < 0 THEN 0
    ELSE BitAt(a, k) * BitAt(b, k) * Pow2(k) + AndBits(a, b, k - 1)

BitAnd(a, b) == AndBits(a, b, 15)

Wrap8(v) == v % 256

Wrap16(v) == v % 65536

\* u8 reinterpreted as i8
AsI8(v) == IF v >= 128 THEN v - 256 ELSE v

\* Option<u8>
None == {}

Some(v) == {v}

\* sparse byte arrays
Get(f, i) == IF i \in DOMAIN f THEN f[i] ELSE 0

Put(f, i, v) ==
    IF v = 0 THEN [k \in DOMAIN f \ {i} |-> f[k]]
    ELSE [k \in DOMAIN f \cup {i} |-> IF k = i THEN v ELSE f[k]]

Empty == [k \in {} |-> 0]

\* `let x = e;`: e is evaluated once and its value handed to F
Bind(e, F(_)) == CHOOSE r \in { F(x) : x \in {e} } : TRUE

(***************************************************************************)
(* PPU registers (crate::ppu::registers)                                   *)
(***************************************************************************)
generate_vblank_nmi(ctrl) == BitAt(ctrl, 7) = 1

vram_addr_increment(ctrl) == IF BitAt(ctrl, 2) = 1 THEN 32 ELSE 1

show_sprites(mask) == BitAt(mask, 4) = 1

is_in_vblank(status) == BitAt(status, 7) = 1

set_vblank_status(status, b) == SetBit(status, 7, b)

reset_vblank_status(status) == SetBit(status, 7, FALSE)

set_sprite_zero_hit(status, b) == SetBit(status, 6, b)

(***************************************************************************)
(* NesPPU                                                                  *)
(***************************************************************************)
HORIZONTAL == "HORIZONTAL"

VERTICAL == "VERTICAL"

PaletteLen == 32

OamLen == 256

DotsPerLine == 341

VBlankLine == 241

LinesPerFrame == 262

NesPPU_new(chr_rom, chr_len, mirroring) ==
    [ chr_rom |-> chr_rom, chr_len |-> chr_len,
      mirroring |-> HORIZONTAL,
      ctrl |-> 0, mask |-> 0, status |-> 0, oam_addr |-> 0,
      scroll_x |-> 0, scroll_y |-> 0, scroll_latch |-> FALSE,
      addr_hi |-> 0, addr_lo |-> 0, hi_ptr |-> TRUE,
      vram |-> Empty, oam_data |-> Empty,
      line |-> 0, cycles |-> 0, nmi_interrupt |-> None,
      palette_table |-> Empty, read_data_buf |-> 0,
      panic |-> FALSE ]

AddrRead(p) == p.addr_hi * 256 + p.addr_lo

AddrSet(p, data) ==
    [p EXCEPT !.addr_hi = data \div 256, !.addr_lo = data % 256]

AddrUpdate(p, data) ==
    IF p.hi_ptr
    THEN [p EXCEPT !.addr_hi = data, !.hi_ptr = FALSE]
    ELSE [p EXCEPT !.addr_lo = data, !.hi_ptr = TRUE]

AddrIncrement_NoCarry(p, inc) ==
    [p EXCEPT !.addr_lo = Wrap8(p.addr_lo + inc)]

AddrIncrement(p, inc) ==
    LET lo == p.addr_lo
        nlo == Wrap8(lo + inc)
    IN  [p EXCEPT !.addr_lo = nlo,
                  !.addr_hi = IF lo > nlo THEN Wrap8(p.addr_hi + 1)
                              ELSE p.addr_hi]

ScrollWrite(p, data) ==
    IF ~p.scroll_latch
    THEN [p EXCEPT !.scroll_x = data, !.scroll_latch = TRUE]
    ELSE [p EXCEPT !.scroll_y = data, !.scroll_latch = FALSE]

mirror_vram_addr_Flat(p, addr) == BitAnd(addr, 12287) - 8192

mirror_vram_addr(p, addr) ==
    LET mirrored_vram == BitAnd(addr, 12287)
        vram_index == mirrored_vram - 8192
        name_table == vram_index \div 1024
    IN  IF p.mirroring = VERTICAL /\ name_table \in {2, 3} THEN vram_index - 2048
        ELSE IF p.mirroring = HORIZONTAL /\ name_table \in {1, 2} THEN vram_index - 1024
        ELSE IF p.mirroring = HORIZONTAL /\ name_table = 3 THEN vram_index - 2048
        ELSE vram_index

increment_vram_addr(p) ==
    LET q == AddrIncrement(p, vram_addr_increment(p.ctrl))
    IN  IF AddrRead(q) > 16383 THEN AddrSet(q, BitAnd(AddrRead(q), 16383)) ELSE q

has_sprite_hit(p, cycle) ==
    /\ Get(p.oam_data, 0) = p.line
    /\ Get(p.oam_data, 3) <= cycle
    /\ show_sprites(p.mask)

\* write_to_ctrl without the test of the previous bit 7
WriteToCtrlLatches_NoEdge(before_nmi_status, ctrl, status) ==
    generate_vblank_nmi(ctrl) /\ is_in_vblank(status)

\* the condition under which write_to_ctrl executes nmi_interrupt = Some(1)
WriteToCtrlLatches(before_nmi_status, ctrl, status) ==
    ~before_nmi_status /\ generate_vblank_nmi(ctrl) /\ is_in_vblank(status)

write_to_ctrl(p, value) ==
    LET before_nmi_status == generate_vblank_nmi(p.ctrl)
        latch == WriteToCtrlLatches(before_nmi_status, value, p.status)
    IN  [ ppu |-> [p EXCEPT !.ctrl = value,
                            !.nmi_interrupt = IF latch THEN Some(1) ELSE @],
          latched |-> latch ]

write_to_mask(p, value) == [p EXCEPT !.mask = value]

read_status_KeepToggle(p) ==
    [ val |-> p.status,
      ppu |-> [p EXCEPT !.status = reset_vblank_status(p.status),
                        !.hi_ptr = TRUE] ]

read_status(p) ==
    [ val |-> p.status,
      ppu |-> [p EXCEPT !.status = reset_vblank_status(p.status),
                        !.hi_ptr = TRUE,
                        !.scroll_latch = FALSE] ]

write_to_oam_addr(p, value) == [p EXCEPT !.oam_addr = value]

write_to_oam_data(p, value) ==
    [p EXCEPT !.oam_data = Put(p.oam_data, p.oam_addr, value),
              !.oam_addr = Wrap8(p.oam_addr + 1)]

read_oam_data(p) == Get(p.oam_data, p.oam_addr)

write_to_scroll(p, value) == ScrollWrite(p, value)

write_to_ppu_addr_NoMask(p, value) == AddrUpdate(p, value)

write_to_ppu_addr(p, value) ==
    LET q == AddrUpdate(p, value)
    IN  IF AddrRead(q) > 16383 THEN AddrSet(q, BitAnd(AddrRead(q), 16383)) ELSE q

write_to_data(p, value) ==
    LET addr == AddrRead(p) IN
    IF addr <= 8191 THEN increment_vram_addr(p)
    ELSE IF addr <= 12287
         THEN increment_vram_addr(
                [p EXCEPT !.vram = Put(p.vram, mirror_vram_addr(p, addr), value)])
    ELSE IF addr <= 16127 THEN [p EXCEPT !.panic = TRUE]
    ELSE IF addr <= 16383
         THEN IF addr - 16128 >= PaletteLen THEN [p EXCEPT !.panic = TRUE]
              ELSE increment_vram_addr(
                     [p EXCEPT !.palette_table = Put(p.palette_table, addr - 16128, value)])
    ELSE [p EXCEPT !.panic = TRUE]

read_data(p) ==
    LET addr == AddrRead(p)
        q == increment_vram_addr(p)
    IN  IF addr <= 8191
        THEN IF addr >= p.chr_len
             THEN [val |-> 0, ppu |-> [q EXCEPT !.panic = TRUE]]
             ELSE [val |-> q.read_data_buf,
                   ppu |-> [q EXCEPT !.read_data_buf = Get(p.chr_rom, addr)]]
        ELSE IF addr <= 12287
        THEN [val |-> q.read_data_buf,
              ppu |-> [q EXCEPT !.read_data_buf = Get(p.vram, mirror_vram_addr(p, addr))]]
        ELSE IF addr <= 16127
        THEN [val |-> 0, ppu |-> [q EXCEPT !.panic = TRUE]]
        ELSE IF addr <= 16383
        THEN IF addr - 16128 >= PaletteLen
             THEN [val |-> 0, ppu |-> [q EXCEPT !.panic = TRUE]]
             ELSE [val |-> Get(p.palette_table, addr - 16128), ppu |-> q]
        ELSE [val |-> 0, ppu |-> [q EXCEPT !.panic = TRUE]]

\* the byte a read of $2007 issued with V = addr loads into the read buffer
PpuPeek(p, addr) == read_data(AddrSet(p, addr)).ppu.read_data_buf

\* iterations i .. i+n-1 of the loop over data, in order (the range is
\* halved so that the evaluation stays shallow)
RECURSIVE OamDmaCopy(_, _, _, _)
OamDmaCopy(p, data, i, n) ==
    IF n = 1
    THEN [p EXCEPT !.oam_data = Put(p.oam_data, p.oam_addr, data[i]),
                   !.oam_addr = Wrap8(p.oam_addr + 1)]
    ELSE Bind(OamDmaCopy(p, data, i, n \div 2), LAMBDA q :
              OamDmaCopy(q, data, i + n \div 2, n - n \div 2))

write_oam_dma(p, data) == OamDmaCopy(p, data, 0, OamLen)

\* NesPPU::tick wrapping the scanline one line late
PpuTick_LateWrap(p, cycles) ==
    LET c1 == p.cycles + cycles IN
    IF c1 < DotsPerLine
    THEN [ppu |-> [p EXCEPT !.cycles = c1], render |-> FALSE, entered |-> FALSE,
          latched |-> FALSE]
    ELSE
      LET st1 == IF has_sprite_hit(p, c1) THEN set_sprite_zero_hit(p.status, TRUE)
                 ELSE p.status
          l2 == p.line + 1
          vb == l2 = VBlankLine
          latch == vb /\ generate_vblank_nmi(p.ctrl)
          st2 == IF vb THEN set_sprite_zero_hit(set_vblank_status(st1, TRUE), FALSE)
                 ELSE st1
          nmi2 == IF latch THEN Some(1) ELSE p.nmi_interrupt
      IN  IF l2 > LinesPerFrame
          THEN [ppu |-> [p EXCEPT !.cycles = c1 - DotsPerLine, !.line = 0,
                                  !.nmi_interrupt = None,
                                  !.status = reset_vblank_status(
                                                set_sprite_zero_hit(st2, FALSE))],
                render |-> TRUE, entered |-> vb, latched |-> latch]
          ELSE [ppu |-> [p EXCEPT !.cycles = c1 - DotsPerLine, !.line = l2,
                                  !.nmi_interrupt = nmi2, !.status = st2],
                render |-> FALSE, entered |-> vb, latched |-> latch]

\* NesPPU::tick: at most one scanline is crossed per call
PpuTick(p, cycles) ==
    LET c1 == p.cycles + cycles IN
    IF c1 < DotsPerLine
    THEN [ppu |-> [p EXCEPT !.cycles = c1], render |-> FALSE, entered |-> FALSE,
          latched |-> FALSE]
    ELSE
      LET st1 == IF has_sprite_hit(p, c1) THEN set_sprite_zero_hit(p.status, TRUE)
                 ELSE p.status
          l2 == p.line + 1
          vb == l2 = VBlankLine
          latch == vb /\ generate_vblank_nmi(p.ctrl)
          st2 == IF vb THEN set_sprite_zero_hit(set_vblank_status(st1, TRUE), FALSE)
                 ELSE st1
          nmi2 == IF latch THEN Some(1) ELSE p.nmi_interrupt
      IN  IF l2 >= LinesPerFrame
          THEN [ppu |-> [p EXCEPT !.cycles = c1 - DotsPerLine, !.line = 0,
                                  !.nmi_interrupt = None,
                                  !.status = reset_vblank_status(
                                                set_sprite_zero_hit(st2, FALSE))],
                render |-> TRUE, entered |-> vb, latched |-> latch]
          ELSE [ppu |-> [p EXCEPT !.cycles = c1 - DotsPerLine, !.line = l2,
                                  !.nmi_interrupt = nmi2, !.status = st2],
                render |-> FALSE, entered |-> vb, latched |-> latch]

poll_nmi_interrupt(p) ==
    [val |-> p.nmi_interrupt, ppu |-> [p EXCEPT !.nmi_interrupt = None]]

(***************************************************************************)
(* Joypad (crate::input): strobe latch and 8-bit read-shift index          *)
(***************************************************************************)
Joypad_new == [strobe |-> FALSE, index |-> 0, status |-> 0]

JoypadWrite(j, data) ==
    LET st == BitAt(data, 0) = 1
    IN  [j EXCEPT !.strobe = st, !.index = IF st THEN 0 ELSE @]

JoypadRead(j) ==
    IF j.index > 7 THEN [val |-> 1, joypad |-> j]
    ELSE [val |-> BitAt(j.status, j.index),
          joypad |-> [j EXCEPT !.index = IF ~j.strobe THEN @ + 1 ELSE @]]

(***************************************************************************)
(* Bus: memory map, PPU clocking, NMI latch                                *)
(***************************************************************************)
RAM_MIRRORS_END == 8191

IO_MIRRORS == 8200

IO_MIRRORS_END == 16383

PRG_ROM == 32768

PRG_ROM_END == 65535

RamMask == 2047

IoMirrorMask == 8199

NES == "nes"

MOCK == "mock"

Bus_new(prg_rom, prg_len, chr_rom, chr_len, mirroring) ==
    [ kind |-> NES, space |-> Empty,
      ram |-> Empty, prg_rom |-> prg_rom, prg_len |-> prg_len,
      rom_mirroring |-> mirroring,
      nmi_interrupt |-> None, cycles |-> 7,
      ppu |-> NesPPU_new(chr_rom, chr_len, mirroring),
      joypad1 |-> Joypad_new, joypad2 |-> Joypad_new,
      callbacks |-> 0, panic |-> FALSE ]

MockBus_new ==
    [ kind |-> MOCK, space |-> Empty,
      ram |-> Empty, prg_rom |-> Empty, prg_len |-> 0,
      rom_mirroring |-> HORIZONTAL,
      nmi_interrupt |-> None, cycles |-> 0,
      ppu |-> NesPPU_new(Empty, 0, HORIZONTAL),
      joypad1 |-> Joypad_new, joypad2 |-> Joypad_new,
      callbacks |-> 0, panic |-> FALSE ]

Aborted(b) == b.panic \/ b.ppu.panic

\* RAM mirroring with a 4 KiB mask
map_mirrors_Wide(pos) ==
    IF pos >= 2048 /\ pos <= RAM_MIRRORS_END THEN BitAnd(pos, 4095)
    ELSE IF pos >= IO_MIRRORS /\ pos <= IO_MIRRORS_END THEN BitAnd(pos, IoMirrorMask)
    ELSE pos

map_mirrors(pos) ==
    IF pos >= 2048 /\ pos <= RAM_MIRRORS_END THEN BitAnd(pos, RamMask)
    ELSE IF pos >= IO_MIRRORS /\ pos <= IO_MIRRORS_END THEN BitAnd(pos, IoMirrorMask)
    ELSE pos

\* register mirroring with address bit 2 dropped
mirror_io_Narrow(pos) == BitAnd(pos, 8195)

\* the register address a mirror in 0x2008..0x3FFF re-dispatches to
mirror_io(pos) == BitAnd(pos, IoMirrorMask)

\* read_prg_rom without the 16 KiB mirror
read_prg_rom_NoMirror(b, pos) ==
    LET p1 == pos - 32768
    IN  IF p1 >= b.prg_len THEN [val |-> 0, bus |-> [b EXCEPT !.panic = TRUE]]
        ELSE [val |-> Get(b.prg_rom, p1), bus |-> b]

read_prg_rom(b, pos) ==
    LET p1 == pos - 32768
        p2 == IF b.prg_len = 16384 /\ p1 >= 16384 THEN p1 % 16384 ELSE p1
    IN  IF p2 >= b.prg_len THEN [val |-> 0, bus |-> [b EXCEPT !.panic = TRUE]]
        ELSE [val |-> Get(b.prg_rom, p2), bus |-> b]

\* the arm of Bus::read's match that an address selects, after the mirror arm
\* has re-dispatched
RECURSIVE BusRead(_, _)
BusRead(b, pos) ==
    IF pos <= RAM_MIRRORS_END
    THEN [val |-> Get(b.ram, map_mirrors(pos)), bus |-> b]
    ELSE IF pos \in {8192, 8193, 8195, 8197, 8198, 16404}
    THEN [val |-> 0, bus |-> b]
    ELSE IF pos = 8194
    THEN LET r == read_status(b.ppu) IN [val |-> r.val, bus |-> [b EXCEPT !.ppu = r.ppu]]
    ELSE IF pos = 8196
    THEN [val |-> read_oam_data(b.ppu), bus |-> b]
    ELSE IF pos = 8199
    THEN LET r == read_data(b.ppu) IN [val |-> r.val, bus |-> [b EXCEPT !.ppu = r.ppu]]
    ELSE IF pos >= IO_MIRRORS /\ pos <= IO_MIRRORS_END
    THEN BusRead(b, mirror_io(pos))
    ELSE IF pos >= 16384 /\ pos <= 16403
    THEN [val |-> 0, bus |-> b]
    ELSE IF pos = 16405
    THEN [val |-> 0, bus |-> b]
    ELSE IF pos = 16406
    THEN LET r == JoypadRead(b.joypad1)
         IN  [val |-> r.val, bus |-> [b EXCEPT !.joypad1 = r.joypad]]
    ELSE IF pos = 16407
    THEN LET r == JoypadRead(b.joypad2)
         IN  [val |-> r.val, bus |-> [b EXCEPT !.joypad2 = r.joypad]]
    ELSE IF pos >= PRG_ROM /\ pos <= PRG_ROM_END
    THEN read_prg_rom(b, pos)
    ELSE [val |-> 0, bus |-> [b EXCEPT !.panic = TRUE]]

\* reads i .. i+n-1 of the OAM DMA loop, in order; stops at the first read
\* that panics (the range is halved so that the evaluation stays shallow)
RECURSIVE DmaFill(_, _, _, _, _)
DmaFill(b, hi, i, n, buffer) ==
    IF Aborted(b) THEN [bus |-> b, buffer |-> buffer]
    ELSE IF n = 1
    THEN Bind(BusRead(b, hi + i), LAMBDA r :
              [bus |-> r.bus, buffer |-> [buffer EXCEPT ![i] = r.val]])
    ELSE Bind(DmaFill(b, hi, i, n \div 2, buffer), LAMBDA h1 :
              DmaFill(h1.bus, hi, i + n \div 2, n - n \div 2, h1.buffer))

RECURSIVE BusWrite(_, _, _)
BusWrite(b, pos, data) ==
    IF pos <= RAM_MIRRORS_END
    THEN [b EXCEPT !.ram = Put(b.ram, map_mirrors(pos), data)]
    ELSE IF pos = 8192
    THEN [b EXCEPT !.ppu = write_to_ctrl(b.ppu, data).ppu]
    ELSE IF pos = 8193
    THEN [b EXCEPT !.ppu = write_to_mask(b.ppu, data)]
    ELSE IF pos = 8194
    THEN [b EXCEPT !.panic = TRUE]
    ELSE IF pos = 8195
    THEN [b EXCEPT !.ppu = write_to_oam_addr(b.ppu, data)]
    ELSE IF pos = 8196
    THEN [b EXCEPT !.ppu = write_to_oam_data(b.ppu, data)]
    ELSE IF pos = 8197
    THEN [b EXCEPT !.ppu = write_to_scroll(b.ppu, data)]
    ELSE IF pos = 8198
    THEN [b EXCEPT !.ppu = write_to_ppu_addr(b.ppu, data)]
    ELSE IF pos = 8199
    THEN [b EXCEPT !.ppu = write_to_data(b.ppu, data)]
    ELSE IF pos = 16404
    THEN Bind(DmaFill(b, data * 256, 0, 256, [i \in 0..255 |-> 0]), LAMBDA r :
              IF Aborted(r.bus) THEN r.bus
              ELSE [r.bus EXCEPT !.ppu = write_oam_dma(r.bus.ppu, r.buffer)])
    ELSE IF pos >= IO_MIRRORS /\ pos <= IO_MIRRORS_END
    THEN BusWrite(b, mirror_io(pos), data)
    ELSE IF pos >= 16384 /\ pos <= 16405
    THEN b
    ELSE IF pos = 16406
    THEN [b EXCEPT !.joypad1 = JoypadWrite(b.joypad1, data)]
    ELSE IF pos = 16407
    THEN [b EXCEPT !.joypad2 = JoypadWrite(b.joypad2, data)]
    ELSE [b EXCEPT !.panic = TRUE]

\* whether Bus::write(0x2000-mirror, data) executed the PPU's nmi assignment
BusWriteLatched(b, pos, data) ==
    /\ pos >= 8192 /\ pos <= IO_MIRRORS_END
    /\ mirror_io(pos) = 8192
    /\ write_to_ctrl(b.ppu, data).latched

\* Bus::tick handing the CPU cycles to the PPU without the factor 3
BusTick_NoTriple(b, cycles) ==
    LET t == PpuTick(b.ppu, cycles)
        n == poll_nmi_interrupt(t.ppu)
    IN  [ bus |-> [b EXCEPT !.cycles = @ + cycles,
                            !.ppu = n.ppu,
                            !.nmi_interrupt = n.val],
          render |-> t.render, entered |-> t.entered, latched |-> t.latched ]

\* what Bus::tick stores in the pending-NMI latch after the PPU has ticked
TickLatch(old, polled) == polled

BusTick(b, cycles) ==
    LET t == PpuTick(b.ppu, cycles * 3)
        n == poll_nmi_interrupt(t.ppu)
    IN  [ bus |-> [b EXCEPT !.cycles = @ + cycles,
                            !.ppu = n.ppu,
                            !.nmi_interrupt = TickLatch(b.nmi_interrupt, n.val)],
          render |-> t.render, entered |-> t.entered, latched |-> t.latched ]

poll_nmi_status(b) ==
    [val |-> b.nmi_interrupt, bus |-> [b EXCEPT !.nmi_interrupt = None]]

\* CpuBus::tick with the host callback called on every tick
CpuBusTick_Always(b, cycles) ==
    LET t == BusTick(b, cycles)
    IN  [t EXCEPT !.bus = [t.bus EXCEPT !.callbacks = @ + 1]]

\* CpuBus::tick for Bus<NesPPU>: the host callback runs when a frame is ready
\* (callbacks counts its calls)
CpuBusTick(b, cycles) ==
    LET t == BusTick(b, cycles)
    IN  [t EXCEPT !.bus = IF t.render THEN [t.bus EXCEPT !.callbacks = @ + 1] ELSE t.bus]

(***************************************************************************)
(* CPU: status flags, stack, interrupts, interpreter                       *)
(***************************************************************************)
CARRY == 1

ZERO == 2

INTERRUPT_DISABLE == 4

DECIMAL_MODE == 8

BREAK == 16

BREAK2 == 32

OVERFLOW == 64

NEGATIV == 128

STACK == 256

STACK_RESET == 253

\* interrupt::BRK and interrupt::NMI
BRK == [itype |-> "BRK", vector_addr |-> 65534, b_flag_mask |-> 48, cpu_cycles |-> 1]

NMI == [itype |-> "NMI", vector_addr |-> 65530, b_flag_mask |-> 32, cpu_cycles |-> 2]

CPU_new ==
    [ register_a |-> 0, register_x |-> 0, register_y |-> 0,
      stack_pointer |-> STACK_RESET, program_counter |-> 0,
      flags |-> 36, program_end |-> 0 ]

\* bitflags: contains / insert / remove / set of a single-bit flag
Contains(f, flag) == BitAnd(f, flag) = flag

Insert(f, flag) == IF Contains(f, flag) THEN f ELSE f + flag

Remove(f, flag) == IF Contains(f, flag) THEN f - flag ELSE f

FlagSet(f, flag, b) == IF b THEN Insert(f, flag) ELSE Remove(f, flag)

udpate_cpu_flags(f, v) ==
    FlagSet(FlagSet(f, ZERO, v = 0), NEGATIV, v \div 128 = 1)

\* add_to_register_a without the carry taken in
add_to_register_a_NoCarryIn(c, data) ==
    LET sum == c.register_a + data
        result == sum % 256
        f1 == FlagSet(c.flags, CARRY, sum > 255)
        f2 == FlagSet(f1, OVERFLOW,
                      BitAt(data, 7) # BitAt(result, 7)
                        /\ BitAt(result, 7) # BitAt(c.register_a, 7))
    IN  [c EXCEPT !.register_a = result, !.flags = udpate_cpu_flags(f2, result)]

\* ADC on the CPU registers; (data ^ result) & (result ^ a) & 0x80 is the
\* test that bit 7 of the result differs from bit 7 of both operands
add_to_register_a(c, data) ==
    LET sum == c.register_a + data + (IF Contains(c.flags, CARRY) THEN 1 ELSE 0)
        result == sum % 256
        f1 == FlagSet(c.flags, CARRY, sum > 255)
        f2 == FlagSet(f1, OVERFLOW,
                      BitAt(data, 7) # BitAt(result, 7)
                        /\ BitAt(result, 7) # BitAt(c.register_a, 7))
    IN  [c EXCEPT !.register_a = result, !.flags = udpate_cpu_flags(f2, result)]

\* (data as i8).wrapping_neg().wrapping_sub(1) as u8
sub_from_register_a(c, data) ==
    add_to_register_a(c, Wrap8(Wrap8(256 - data) + 255))

\* The interpreter state while one instruction executes: the CPU, its bus,
\* whether a PPU tick of this instruction raised the VBlank NMI, and the
\* CPU as interrupt() left it when an NMI was serviced.
NoInt == [taken |-> FALSE, pc |-> 0, s |-> 0, flags |-> 0, a |-> 0, x |-> 0,
          y |-> 0, b1 |-> 0, b2 |-> 0, b3 |-> 0]

Machine(c, b) ==
    [cpu |-> c, bus |-> b, raised |-> FALSE, int |-> NoInt, halt |-> FALSE,
     at |-> 0, code |-> 0]

Dead(m) == Aborted(m.bus) \/ m.halt

mem_read(m, pos) ==
    IF Dead(m) THEN [val |-> 0, m |-> m]
    ELSE IF m.bus.kind = MOCK THEN [val |-> Get(m.bus.space, pos), m |-> m]
    ELSE Bind(BusRead(m.bus, pos),
              LAMBDA r : [val |-> r.val, m |-> [m EXCEPT !.bus = r.bus]])

mem_write(m, pos, data) ==
    IF Dead(m) THEN m
    ELSE IF m.bus.kind = MOCK THEN [m EXCEPT !.bus.space = Put(@, pos, data)]
    ELSE [m EXCEPT !.bus = BusWrite(@, pos, data)]

\* Mem::read_u16: little endian, low byte first
mem_read_u16(m, pos) ==
    IF pos >= 65535 THEN [val |-> 0, m |-> [m EXCEPT !.bus.panic = TRUE]]
    ELSE Bind(mem_read(m, pos), LAMBDA lo :
         Bind(mem_read(lo.m, pos + 1), LAMBDA hi :
              [val |-> hi.val * 256 + lo.val, m |-> hi.m]))

bus_tick(m, cycles) ==
    IF Dead(m) THEN m
    ELSE IF m.bus.kind = MOCK THEN [m EXCEPT !.bus.cycles = @ + cycles]
    ELSE Bind(CpuBusTick(m.bus, cycles),
              LAMBDA t : [m EXCEPT !.bus = t.bus, !.raised = @ \/ t.latched])

stack_push(m, data) ==
    [mem_write(m, STACK + m.cpu.stack_pointer, data)
        EXCEPT !.cpu.stack_pointer = Wrap8(@ + 255)]

\* stack_pop reading before the stack pointer moves
stack_pop_ReadFirst(m) ==
    Bind(mem_read(m, STACK + m.cpu.stack_pointer), LAMBDA r :
         [r EXCEPT !.m.cpu.stack_pointer = Wrap8(@ + 1)])

stack_pop(m) ==
    Bind([m EXCEPT !.cpu.stack_pointer = Wrap8(@ + 1)],
         LAMBDA m1 : mem_read(m1, STACK + m1.cpu.stack_pointer))

\* stack_push_u16 with the low byte pushed first
stack_push_u16_LoFirst(m, data) ==
    Bind(stack_push(m, data % 256), LAMBDA m1 : stack_push(m1, data \div 256))

stack_push_u16(m, data) ==
    Bind(stack_push(m, data \div 256), LAMBDA m1 : stack_push(m1, data % 256))

\* stack_pop_u16 with the two bytes taken in the wrong order
stack_pop_u16_Swapped(m) ==
    Bind(stack_pop(m), LAMBDA hi :
    Bind(stack_pop(hi.m), LAMBDA lo :
         [val |-> hi.val * 256 + lo.val, m |-> lo.m]))

stack_pop_u16(m) ==
    Bind(stack_pop(m), LAMBDA lo :
    Bind(stack_pop(lo.m), LAMBDA hi :
         [val |-> hi.val * 256 + lo.val, m |-> hi.m]))

\* `interrupt.b_flag_mask & bit == 1`: & binds tighter than == in Rust
BFlag(mask, bit) == BitAnd(mask, bit) = 1

\* interrupt keeping the pushed status byte as the live status
interrupt_LiveCopy(m, i) ==
    Bind(stack_push_u16(m, m.cpu.program_counter), LAMBDA m1 :
    Bind(FlagSet(FlagSet(m1.cpu.flags, BREAK, BFlag(i.b_flag_mask, 16)),
                 BREAK2, BFlag(i.b_flag_mask, 32)), LAMBDA flag :
    Bind(stack_push(m1, flag), LAMBDA m2 :
    Bind(bus_tick([m2 EXCEPT !.cpu.flags = Insert(flag, INTERRUPT_DISABLE)],
                  i.cpu_cycles), LAMBDA m4 :
    Bind(mem_read_u16(m4, i.vector_addr), LAMBDA v :
         [v.m EXCEPT !.cpu.program_counter = v.val])))))

interrupt(m, i) ==
    Bind(stack_push_u16(m, m.cpu.program_counter), LAMBDA m1 :
    Bind(stack_push(m1, FlagSet(FlagSet(m1.cpu.flags, BREAK, BFlag(i.b_flag_mask, 16)),
                                BREAK2, BFlag(i.b_flag_mask, 32))), LAMBDA m2 :
    Bind(bus_tick([m2 EXCEPT !.cpu.flags = Insert(@, INTERRUPT_DISABLE)],
                  i.cpu_cycles), LAMBDA m4 :
    Bind(mem_read_u16(m4, i.vector_addr), LAMBDA v :
         [v.m EXCEPT !.cpu.program_counter = v.val]))))

\* the target of a taken branch whose offset byte is j
JumpAddr(pc, j) == Wrap16(Wrap16(pc + 1) + Wrap16(AsI8(j) + 65536))

branch(m, condition) ==
    IF ~condition THEN m
    ELSE Bind(bus_tick(m, 1), LAMBDA m1 :
         Bind(mem_read(m1, m1.cpu.program_counter), LAMBDA j :
         Bind(JumpAddr(m1.cpu.program_counter, j.val), LAMBDA jump_addr :
         Bind(IF BitAnd(Wrap16(m1.cpu.program_counter + 1), 65280)
                    # BitAnd(jump_addr, 65280)
              THEN bus_tick(j.m, 1) ELSE j.m, LAMBDA m2 :
              [m2 EXCEPT !.cpu.program_counter = jump_addr]))))

ZERO_PAGE == 0

\* Whether the build checks integer arithmetic: a debug build panics on an
\* overflowing `+`, a release build wraps. The scenario fixes the build.
overflow_checks == "checks" \in DOMAIN last.scen /\ last.scen.checks

\* `a + b` on a type of the given modulus, as the build evaluates it
CheckedAdd(m, a, b, modulus) ==
    IF a + b >= modulus /\ overflow_checks
    THEN [val |-> 0, m |-> [m EXCEPT !.bus.panic = TRUE]]
    ELSE [val |-> (a + b) % modulus, m |-> m]

\* the address AddressingMode::read_u8 reads, after the operand byte pos
ReadAddr(m, mode, pos) ==
    CASE mode = "ZeroPage"   -> [val |-> ZERO_PAGE + pos, m |-> m]
      [] mode = "ZeroPage_X" -> [val |-> ZERO_PAGE + pos + m.cpu.register_x, m |-> m]
      [] mode = "ZeroPage_Y" -> [val |-> ZERO_PAGE + pos + m.cpu.register_y, m |-> m]
      [] mode = "Absolute"   -> mem_read_u16(m, m.cpu.program_counter)
      [] mode = "Indirect_X" ->
            Bind(CheckedAdd(m, pos, m.cpu.register_x, 256), LAMBDA ptr :
                 mem_read_u16(ptr.m, ptr.val))
      [] mode = "Indirect_Y" ->
            Bind(mem_read_u16(m, pos), LAMBDA d :
                 CheckedAdd(d.m, d.val, d.m.cpu.register_y, 65536))

\* the address AddressingMode::write_u8 writes, after the operand byte pos
WriteAddr(m, mode, pos) ==
    CASE mode = "ZeroPage_X" -> CheckedAdd(m, pos, m.cpu.register_x, 256)
      [] mode = "ZeroPage_Y" -> CheckedAdd(m, pos, m.cpu.register_y, 256)
      [] OTHER -> ReadAddr(m, mode, pos)

read_u8(m, mode) ==
    IF mode = "Accumulator" THEN [val |-> m.cpu.register_a, m |-> m]
    ELSE Bind(mem_read(m, m.cpu.program_counter), LAMBDA pos :
         IF mode = "Immediate" THEN pos
         ELSE IF mode = "NoneAddressing" THEN [pos EXCEPT !.m.bus.panic = TRUE]
         ELSE Bind(ReadAddr(pos.m, mode, pos.val), LAMBDA a : mem_read(a.m, a.val)))

write_u8(m, mode, data) ==
    IF mode = "Accumulator"
    THEN [m EXCEPT !.cpu.register_a = data, !.cpu.flags = udpate_cpu_flags(@, data)]
    ELSE Bind(mem_read(m, m.cpu.program_counter), LAMBDA pos :
         IF mode \in {"Immediate", "NoneAddressing"} THEN [pos.m EXCEPT !.bus.panic = TRUE]
         ELSE Bind(WriteAddr(pos.m, mode, pos.val), LAMBDA a : mem_write(a.m, a.val, data)))

\* JMP (indirect): the pointer's high byte is read without carrying into
\* the pointer's page
jmp_indirect(m) ==
    Bind(mem_read_u16(m, m.cpu.program_counter), LAMBDA p :
    Bind(IF BitAnd(p.val, 255) = 255
         THEN Bind(mem_read(p.m, p.val), LAMBDA lo :
              Bind(mem_read(lo.m, BitAnd(p.val, 65280)), LAMBDA hi :
                   [val |-> hi.val * 256 + lo.val, m |-> hi.m]))
         ELSE mem_read_u16(p.m, p.val), LAMBDA indirect_ref :
         [indirect_ref.m EXCEPT !.cpu.program_counter = indirect_ref.val]))

\* DCP: the decremented value is stored and compared, CARRY is only inserted
dcp(m, mode) ==
    Bind(read_u8(m, mode), LAMBDA r :
    Bind(Wrap8(r.val + 255), LAMBDA data :
    Bind(write_u8(r.m, mode, data), LAMBDA m1 :
         [m1 EXCEPT !.cpu.flags =
            udpate_cpu_flags(IF data <= m1.cpu.register_a THEN Insert(@, CARRY) ELSE @,
                             Wrap8(m1.cpu.register_a + 256 - data))])))

\* opcode table (crate::cpu::opscode): instruction length and base cycles
OpsCodes ==
    {0, 8, 24, 32, 40, 56, 64, 72, 76, 88, 96, 104, 105, 108, 120, 129, 136,
     138, 141, 145, 149, 150, 154, 161, 162, 169, 170, 173, 177, 181, 182,
     199, 200, 202, 208, 216, 232, 233, 234, 240}

OpsLen(code) ==
    IF code \in {105, 129, 145, 149, 150, 161, 162, 169, 177, 181, 182, 199,
                 208, 233, 240} THEN 2
    ELSE IF code \in {32, 76, 108, 141, 173} THEN 3
    ELSE 1

OpsCycles(code) ==
    IF code = 0 THEN 7
    ELSE IF code \in {8, 72, 76} THEN 3
    ELSE IF code \in {40, 104, 141, 149, 150, 173, 181, 182} THEN 4
    ELSE IF code \in {108, 177, 199} THEN 5
    ELSE IF code \in {32, 64, 96, 129, 145, 161} THEN 6
    ELSE 2

OpsMode(code) ==
    IF code \in {105, 162, 169, 233} THEN "Immediate"
    ELSE IF code = 199 THEN "ZeroPage"
    ELSE IF code \in {149, 181} THEN "ZeroPage_X"
    ELSE IF code \in {150, 182} THEN "ZeroPage_Y"
    ELSE IF code \in {141, 173} THEN "Absolute"
    ELSE IF code \in {129, 161} THEN "Indirect_X"
    ELSE IF code \in {145, 177} THEN "Indirect_Y"
    ELSE "NoneAddressing"

SetX(m, v) ==
    [m EXCEPT !.cpu.register_x = v, !.cpu.flags = udpate_cpu_flags(@, v)]

SetY(m, v) ==
    [m EXCEPT !.cpu.register_y = v, !.cpu.flags = udpate_cpu_flags(@, v)]

SetA(m, v) ==
    [m EXCEPT !.cpu.register_a = v, !.cpu.flags = udpate_cpu_flags(@, v)]

\* PLP and RTI keeping the popped byte as it is
PulledFlags_Raw(v) == v

\* PLP and RTI: the popped byte with BREAK removed and BREAK2 inserted
PulledFlags(v) == Insert(Remove(v, BREAK), BREAK2)

\* the arm of the `match code` that the opcode selects; PC is past the opcode
Dispatch(m, code) ==
    CASE code = 216 -> [m EXCEPT !.cpu.flags = Remove(@, DECIMAL_MODE)]
      [] code = 88  -> [m EXCEPT !.cpu.flags = Remove(@, INTERRUPT_DISABLE)]
      [] code = 24  -> [m EXCEPT !.cpu.flags = Remove(@, CARRY)]
      [] code = 56  -> [m EXCEPT !.cpu.flags = Insert(@, CARRY)]
      [] code = 120 -> [m EXCEPT !.cpu.flags = Insert(@, INTERRUPT_DISABLE)]
      [] code = 72  -> stack_push(m, m.cpu.register_a)
      [] code = 104 -> Bind(stack_pop(m), LAMBDA r : SetA(r.m, r.val))
      [] code = 8   -> stack_push(m, Insert(Insert(m.cpu.flags, BREAK), BREAK2))
      [] code = 40  -> Bind(stack_pop(m), LAMBDA r :
                            [r.m EXCEPT !.cpu.flags = PulledFlags(r.val)])
      [] code = 232 -> SetX(m, Wrap8(m.cpu.register_x + 1))
      [] code = 200 -> SetY(m, Wrap8(m.cpu.register_y + 1))
      [] code = 202 -> SetX(m, Wrap8(m.cpu.register_x + 255))
      [] code = 136 -> SetY(m, Wrap8(m.cpu.register_y + 255))
      [] code = 76  -> Bind(mem_read_u16(m, m.cpu.program_counter), LAMBDA r :
                            [r.m EXCEPT !.cpu.program_counter = r.val])
      [] code = 32  -> Bind(stack_push_u16(m, m.cpu.program_counter + 2 - 1), LAMBDA m1 :
                       Bind(mem_read_u16(m1, m1.cpu.program_counter), LAMBDA r :
                            [r.m EXCEPT !.cpu.program_counter = r.val]))
      [] code = 96  -> Bind(stack_pop_u16(m), LAMBDA r :
                            IF r.val + 1 > 65535 THEN [r.m EXCEPT !.bus.panic = TRUE]
                            ELSE [r.m EXCEPT !.cpu.program_counter = r.val + 1])
      [] code = 64  -> Bind(stack_pop(m), LAMBDA r :
                       Bind(stack_pop_u16([r.m EXCEPT !.cpu.flags = PulledFlags(r.val)]),
                            LAMBDA a : [a.m EXCEPT !.cpu.program_counter = a.val]))
      [] code = 208 -> branch(m, ~Contains(m.cpu.flags, ZERO))
      [] code = 240 -> branch(m, Contains(m.cpu.flags, ZERO))
      [] code = 141 -> Bind(mem_read_u16(m, m.cpu.program_counter), LAMBDA r :
                            mem_write(r.m, r.val, r.m.cpu.register_a))
      [] code = 173 -> Bind(mem_read_u16(m, m.cpu.program_counter), LAMBDA a :
                       Bind(mem_read(a.m, a.val), LAMBDA r : SetA(r.m, r.val)))
      [] code = 169 -> Bind(mem_read(m, m.cpu.program_counter), LAMBDA r : SetA(r.m, r.val))
      [] code = 162 -> Bind(mem_read(m, m.cpu.program_counter), LAMBDA r : SetX(r.m, r.val))
      [] code = 105 -> Bind(mem_read(m, m.cpu.program_counter), LAMBDA r :
                            [r.m EXCEPT !.cpu = add_to_register_a(@, r.val)])
      [] code = 233 -> Bind(mem_read(m, m.cpu.program_counter), LAMBDA r :
                            [r.m EXCEPT !.cpu = sub_from_register_a(@, r.val)])
      [] code = 234 -> m
      [] code = 108 -> jmp_indirect(m)
      [] code \in {161, 177, 181} ->
            Bind(read_u8(m, OpsMode(code)), LAMBDA r : SetA(r.m, r.val))
      [] code = 182 -> Bind(read_u8(m, OpsMode(code)), LAMBDA r : SetX(r.m, r.val))
      [] code \in {129, 145, 149} -> write_u8(m, OpsMode(code), m.cpu.register_a)
      [] code = 150 -> write_u8(m, OpsMode(code), m.cpu.register_x)
      [] code = 199 -> dcp(m, OpsMode(code))
      [] code = 170 -> SetX(m, m.cpu.register_a)
      [] code = 138 -> SetA(m, m.cpu.register_x)
      [] code = 154 -> [m EXCEPT !.cpu.stack_pointer = m.cpu.register_x]
      [] OTHER -> [m EXCEPT !.halt = TRUE]

\* the CPU and the three bytes on top of the stack as interrupt() leaves them
IntSnapshot(m) ==
    LET c == m.cpu
        rd(k) == mem_read(m, STACK + Wrap8(c.stack_pointer + k)).val
    IN  [taken |-> TRUE, pc |-> c.program_counter, s |-> c.stack_pointer,
         flags |-> c.flags, a |-> c.register_a, x |-> c.register_x,
         y |-> c.register_y, b1 |-> rd(1), b2 |-> rd(2), b3 |-> rd(3)]

\* the start of execute_next_op: a latched NMI is taken and serviced
PollAndService(m0) ==
    Bind(poll_nmi_status(m0.bus), LAMBDA n :
         IF n.val # None
         THEN Bind(interrupt([m0 EXCEPT !.bus = n.bus], NMI), LAMBDA i :
                   [i EXCEPT !.int = IntSnapshot(i)])
         ELSE [m0 EXCEPT !.bus = n.bus])

\* the end of execute_next_op: the instruction's cycles, then the PC moved
\* past the operands if the instruction did not move it
TickAndAdvance(m4, code, program_counter_state) ==
    Bind(bus_tick(m4, OpsCycles(code)), LAMBDA m5 :
         IF program_counter_state = m5.cpu.program_counter
         THEN [m5 EXCEPT !.cpu.program_counter = @ + (OpsLen(code) - 1)]
         ELSE m5)

\* the BRK arm: with an empty BRK vector the run ends before the tick
BrkArm(m2, program_end) ==
    Bind(mem_read([m2 EXCEPT !.cpu.program_counter = @ + 1], BRK.vector_addr), LAMBDA v :
         IF v.val = 0
         THEN [v.m EXCEPT !.cpu.program_counter = program_end]
         ELSE Bind(IF ~Contains(v.m.cpu.flags, INTERRUPT_DISABLE)
                   THEN interrupt(v.m, BRK) ELSE v.m, LAMBDA m4 :
                   TickAndAdvance(m4, 0, m2.cpu.program_counter)))

execute_next_op(m0) ==
    Bind(PollAndService(m0), LAMBDA m1 :
    Bind(mem_read(m1, m1.cpu.program_counter), LAMBDA c :
         IF c.val \notin OpsCodes THEN [c.m EXCEPT !.halt = TRUE]
         ELSE Bind([c.m EXCEPT !.cpu.program_counter = @ + 1,
                               !.at = m1.cpu.program_counter, !.code = c.val], LAMBDA m2 :
                   IF c.val = 0 THEN BrkArm(m2, m0.cpu.program_end)
                   ELSE Bind(Dispatch(m2, c.val), LAMBDA m4 :
                             TickAndAdvance(m4, c.val, m2.cpu.program_counter)))))

(***************************************************************************)
(* Record of the operation that produced the current state                 *)
(***************************************************************************)
NoRet == [active |-> FALSE, pc |-> 0, s |-> 0]

NoScen == [prog |-> 0, vec |-> 0, pending |-> FALSE, x |-> 0, a |-> 0, s |-> 0]

NoOp ==
    [ op |-> "init", pos |-> 0, data |-> 0, val |-> 0,
      latched |-> FALSE, entered |-> FALSE, serviced |-> FALSE,
      at |-> 0, code |-> 0, int |-> NoInt, raised |-> FALSE, halt |-> FALSE,
      ret |-> NoRet, after_rti |-> FALSE, scen |-> NoScen, render |-> FALSE ]

MaxNmiSets == 2

\* NMI-latch assignments executed by the PPU since the scanline last became 241
CountSets(n, entered, latched) ==
    IF entered THEN (IF latched THEN 1 ELSE 0)
    ELSE IF latched /\ n < MaxNmiSets THEN n + 1
    ELSE n

(***************************************************************************)
(* Bus operations as actions                                               *)
(***************************************************************************)
MaxCycles == 58147

BusWriteOp(pos, data) ==
    /\ ~Aborted(bus)
    /\ bus' = BusWrite(bus, pos, data)
    /\ last' = [NoOp EXCEPT !.op = "write", !.pos = pos, !.data = data,
                            !.latched = BusWriteLatched(bus, pos, data)]
    /\ nmi_sets' = CountSets(nmi_sets, FALSE, BusWriteLatched(bus, pos, data))
    /\ UNCHANGED cpu

BusReadOp(pos) ==
    /\ ~Aborted(bus)
    /\ LET r == BusRead(bus, pos)
       IN  /\ bus' = r.bus
           /\ last' = [NoOp EXCEPT !.op = "read", !.pos = pos, !.val = r.val]
    /\ UNCHANGED <<cpu, nmi_sets>>

BusTickOp(cycles) ==
    /\ ~Aborted(bus)
    /\ bus.cycles + cycles <= MaxCycles
    /\ LET t == BusTick(bus, cycles)
       IN  /\ bus' = t.bus
           /\ last' = [NoOp EXCEPT !.op = "tick", !.data = cycles,
                                   !.latched = t.latched, !.entered = t.entered]
           /\ nmi_sets' = CountSets(nmi_sets, t.entered, t.latched)
    /\ UNCHANGED cpu

CpuBusTickOp(cycles) ==
    /\ ~Aborted(bus)
    /\ \E t \in {CpuBusTick(bus, cycles)} :
           /\ bus' = t.bus
           /\ last' = [NoOp EXCEPT !.op = "tick", !.data = cycles,
                                   !.latched = t.latched, !.entered = t.entered,
                                   !.render = t.render]
           /\ nmi_sets' = CountSets(nmi_sets, t.entered, t.latched)
    /\ UNCHANGED cpu

BusPollOp ==
    /\ ~Aborted(bus)
    /\ LET r == poll_nmi_status(bus)
       IN  /\ bus' = r.bus
           /\ last' = [NoOp EXCEPT !.op = "poll",
                                   !.val = IF r.val = None THEN 0 ELSE 1,
                                   !.serviced = r.val # None]
    /\ UNCHANGED <<cpu, nmi_sets>>

(***************************************************************************)
(* SpecNmi: the VBlank/NMI path driven through the Bus                     *)
(***************************************************************************)
TickCycles == {57, 114}

CtrlValues == {0, 128}

InitNmi ==
    /\ cpu = CPU_new
    /\ bus = Bus_new(Empty, 16384, Empty, 8192, HORIZONTAL)
    /\ last = NoOp
    /\ nmi_sets = 0
    /\ ops = 0

NextNmi ==
    /\ \/ \E c \in TickCycles : BusTickOp(c)
       \/ \E d \in CtrlValues : BusWriteOp(8192, d)
       \/ BusReadOp(8194)
       \/ BusPollOp
    /\ UNCHANGED ops

SpecNmi == InitNmi /\ [][NextNmi]_vars

(***************************************************************************)
(* Spec: the CPU-visible memory map, driven by Bus::read and Bus::write    *)
(***************************************************************************)
MaxOps == 3

\* RAM and its mirrors, the PPU registers and mirrors of each, expansion
\* ROM, SRAM and PRG-ROM
RamAddrs == {5, 2053, 6149, 8191}

IoAddrs == 8192..8207 \cup {13398, 16383}

UnmappedAddrs == {16416, 24575, 24576, 32767}

PrgAddrs == {32768, 49152}

BusAddrs == RamAddrs \cup IoAddrs \cup UnmappedAddrs \cup PrgAddrs

WriteData == {33, 128}

\* PRG-ROM image of the cartridge under test
TestPrg == (0 :> 76) @@ (1 :> 0) @@ (2 :> 128) @@ (16383 :> 255)

TestChr == (0 :> 17) @@ (33 :> 34)

Init ==
    /\ cpu = CPU_new
    /\ bus = Bus_new(TestPrg, 16384, TestChr, 8192, HORIZONTAL)
    /\ last = NoOp
    /\ nmi_sets = 0
    /\ ops = 0

Next ==
    /\ ops < MaxOps
    /\ ops' = ops + 1
    /\ \/ \E pos \in BusAddrs : BusReadOp(pos)
       \/ \E pos \in BusAddrs, data \in WriteData : BusWriteOp(pos, data)

Spec == Init /\ [][Next]_vars

(***************************************************************************)
(* The run loop of interpret_fn: one action per executed instruction       *)
(***************************************************************************)
\* `last` after an instruction: what was fetched and from where, the CPU as
\* interrupt() left it if an NMI was serviced, and the return address and S
\* of the interrupted program while its handler runs.
StepRecord(m) ==
    LET ret == IF m.int.taken
               THEN [active |-> TRUE, pc |-> cpu.program_counter,
                     s |-> cpu.stack_pointer]
               ELSE last.ret
        returns == ret.active /\ m.code = 64 /\ ~m.halt
    IN  [NoOp EXCEPT !.op = "step", !.at = m.at, !.code = m.code,
                     !.int = m.int, !.raised = m.raised, !.halt = m.halt,
                     !.serviced = m.int.taken,
                     !.ret = IF returns THEN [ret EXCEPT !.active = FALSE] ELSE ret,
                     !.after_rti = returns,
                     !.scen = last.scen]

CpuStep ==
    /\ cpu.program_counter < cpu.program_end
    /\ ~Aborted(bus)
    /\ ~last.halt
    /\ \E m \in {execute_next_op(Machine(cpu, bus))} :
           /\ cpu' = m.cpu
           /\ bus' = m.bus
           /\ last' = StepRecord(m)
    /\ UNCHANGED nmi_sets

(***************************************************************************)
(* SpecCpu: the interpreter on the MockBus, as the unit tests run it       *)
(***************************************************************************)
MaxSteps == 10

\* DEX; JMP 106; nmi: LDX #5; RTI
ProgS6 == <<202, 76, 106, 0, 162, 5, 64>>

\* INX; BRK; NOP; NOP; nmi: PHA; PLA; INY; RTI
ProgStack == <<232, 0, 234, 234, 72, 104, 200, 64>>

\* BNE +6; BRK; NOP; nmi: LDX #5; INY; RTI; INX; BRK
ProgBranch == <<208, 6, 0, 234, 162, 5, 200, 64, 232, 0>>

Programs == <<ProgS6, ProgStack, ProgBranch>>

ProgStart == 100

NmiVectors == {104, 106}

Scenarios ==
    [prog : 1..3, vec : NmiVectors, pending : BOOLEAN, x : 0..2, a : {0, 9},
     s : {STACK_RESET, 1}]

\* test_interpret_fn: the program bytes written from mem_start on
LoadProgram(space, program, pos) ==
    LET at(a) == IF a \in pos..(pos + Len(program) - 1)
                 THEN program[a - pos + 1] ELSE Get(space, a)
        dom == DOMAIN space \cup pos..(pos + Len(program) - 1)
    IN  [a \in {d \in dom : at(d) # 0} |-> at(a)]

InitCpu ==
    \E sc \in Scenarios :
        /\ bus = [MockBus_new EXCEPT
                    !.space = LoadProgram(Put(Put(Empty, 65530, sc.vec % 256),
                                              65531, sc.vec \div 256),
                                          Programs[sc.prog], ProgStart),
                    !.nmi_interrupt = IF sc.pending THEN Some(1) ELSE None]
        /\ cpu = [CPU_new EXCEPT !.program_counter = ProgStart,
                                 !.program_end = ProgStart + Len(Programs[sc.prog]),
                                 !.register_x = sc.x, !.register_a = sc.a,
                                 !.stack_pointer = sc.s]
        /\ last = [NoOp EXCEPT !.scen = sc]
        /\ nmi_sets = 0
        /\ ops = 0

NextCpu ==
    /\ ops < MaxSteps
    /\ ops' = ops + 1
    /\ CpuStep

SpecCpu == InitCpu /\ [][NextCpu]_vars

(***************************************************************************)
(* SpecSys: the interpreter on the NES Bus, as src/native runs it          *)
(***************************************************************************)
MaxSysCycles == 30000

Paddings == 0..4

HandlerAddr == 32832

\* LDA #$80; STA $2000; k NOPs; loop: INX; BNE loop; JMP loop
SysCode(k) ==
    <<169, 128, 141, 0, 32>> \o [i \in 1..k |-> 234]
        \o <<232, 208, 253, 76, 5 + k, 128>>

\* 16 KiB PRG-ROM: the code, the handler INY; RTI and the three vectors
SysPrg(k) ==
    LET code == LoadProgram(Empty, SysCode(k), 0)
        handler == LoadProgram(code, <<200, 64>>, HandlerAddr - PRG_ROM)
    IN  LoadProgram(LoadProgram(handler, <<HandlerAddr % 256, HandlerAddr \div 256>>, 16378),
                    <<0, 128, 1, 128>>, 16380)

InitSys ==
    \E k \in Paddings :
        LET b == Bus_new(SysPrg(k), 16384, Empty, 8192, HORIZONTAL)
        IN  /\ bus = b
            /\ cpu = [CPU_new EXCEPT
                        !.program_counter = mem_read_u16(Machine(CPU_new, b), 65532).val,
                        !.program_end = 65535]
            /\ last = NoOp
            /\ nmi_sets = 0
            /\ ops = 0

NextSys ==
    /\ bus.cycles <= MaxSysCycles
    /\ CpuStep
    /\ UNCHANGED ops

SpecSys == InitSys /\ [][NextSys]_vars

(***************************************************************************)
(* SpecDma: cartridge PRG-ROM reads and OAM DMA through the Bus            *)
(***************************************************************************)
MaxDmaOps == 3

PrgLens == {16384, 32768}

\* a PRG image whose two 16 KiB halves differ
TestPrg32 ==
    (0 :> 76) @@ (1 :> 7) @@ (255 :> 9) @@ (16383 :> 255)
        @@ (16384 :> 17) @@ (16385 :> 18) @@ (32767 :> 34)

PrgImage(len) == [k \in {d \in DOMAIN TestPrg32 : d < len} |-> TestPrg32[k]]

\* source pages of the DMA: RAM, a RAM mirror, the PPU registers, expansion
\* ROM, PRG-ROM
DmaPages == {0, 8, 32, 65, 128, 192}

DmaRamAddrs == {0, 2, 2303}

OamAddrs == {0, 254}

DmaPrgAddrs == {32768, 32769, 49151, 49152, 49153, 65535}

InitDma ==
    \E len \in PrgLens :
        /\ cpu = CPU_new
        /\ bus = Bus_new(PrgImage(len), len, TestChr, 8192, HORIZONTAL)
        /\ last = NoOp
        /\ nmi_sets = 0
        /\ ops = 0

NextDma ==
    /\ ops < MaxDmaOps
    /\ ops' = ops + 1
    /\ \/ \E pos \in DmaRamAddrs, data \in WriteData : BusWriteOp(pos, data)
       \/ \E a \in OamAddrs : BusWriteOp(8195, a)
       \/ \E h \in DmaPages : BusWriteOp(16404, h)
       \/ \E pos \in DmaPrgAddrs : BusReadOp(pos)

SpecDma == InitDma /\ [][NextDma]_vars

(***************************************************************************)
(* SpecPpu: the PPU data port, address latch and toggles through the Bus   *)
(***************************************************************************)
MaxPpuOps == 3

\* name-table bytes already uploaded (the unit tests store into ppu.vram)
TestVram ==
    (5 :> 102) @@ (6 :> 103) @@ (37 :> 104) @@ (511 :> 105) @@ (512 :> 119)
        @@ (543 :> 120) @@ (1023 :> 90) @@ (1029 :> 85) @@ (2047 :> 86)

TestPalette == (0 :> 15) @@ (16 :> 48) @@ (31 :> 22)

\* values of V: pattern tables, the four name tables, the palette range
VStart ==
    {0, 1, 8197, 8703, 9221, 10239, 10245, 11263, 11269, 12287,
     16128, 16144, 16159, 16160, 16383}

\* the PPU in a visible scanline after a sprite-0 hit, and inside VBlank
PpuPhases ==
    { [status |-> 64, line |-> 30, mask |-> 16, oam_data |-> (0 :> 29)],
      [status |-> 128, line |-> 245, mask |-> 0, oam_data |-> Empty] }

AddrBytes == {5, 99}

ScrollBytes == {7}

StepCtrl == {0, 4}

InitPpu ==
    \E v \in VStart, ph \in PpuPhases, mir \in {HORIZONTAL, VERTICAL} :
        /\ cpu = CPU_new
        /\ bus = [Bus_new(TestPrg, 16384, TestChr, 8192, mir) EXCEPT
                    !.ppu = [@ EXCEPT !.vram = TestVram,
                                      !.palette_table = TestPalette,
                                      !.addr_hi = v \div 256, !.addr_lo = v % 256,
                                      !.status = ph.status, !.line = ph.line,
                                      !.mask = ph.mask, !.oam_data = ph.oam_data]]
        /\ last = NoOp
        /\ nmi_sets = 0
        /\ ops = 0

NextPpu ==
    /\ ops < MaxPpuOps
    /\ ops' = ops + 1
    /\ \/ \E d \in AddrBytes : BusWriteOp(8198, d)
       \/ \E d \in WriteData : BusWriteOp(8199, d)
       \/ BusReadOp(8199)
       \/ \E c \in StepCtrl : BusWriteOp(8192, c)
       \/ BusReadOp(8194)
       \/ \E d \in ScrollBytes : BusWriteOp(8197, d)

SpecPpu == InitPpu /\ [][NextPpu]_vars

(***************************************************************************)
(* SpecFrame: the scanline clock driven by CpuBus::tick over two frames    *)
(***************************************************************************)
MaxFrameCycles == 59700

\* cycle counts handed to CpuBus::tick: the extra cycle of a taken branch,
\* a short and a long instruction
FrameTicks == {1, 2, 7}

\* sprite 0 as the game left it in OAM, with sprites shown or hidden
SpriteSetups ==
    { [mask |-> 0, oam_data |-> Empty],
      [mask |-> 16, oam_data |-> (0 :> 250)] }

InitFrame ==
    \E su \in SpriteSetups :
        /\ cpu = CPU_new
        /\ bus = [Bus_new(TestPrg, 16384, TestChr, 8192, HORIZONTAL) EXCEPT
                    !.ppu = [@ EXCEPT !.mask = su.mask, !.oam_data = su.oam_data]]
        /\ last = NoOp
        /\ nmi_sets = 0
        /\ ops = 0

NextFrame ==
    /\ \E c \in FrameTicks :
          /\ bus.cycles + c <= MaxFrameCycles
          /\ CpuBusTickOp(c)
    /\ UNCHANGED ops

SpecFrame == InitFrame /\ [][NextFrame]_vars

(***************************************************************************)
(* SpecAlu: ADC and SBC immediate on every accumulator, operand and carry  *)
(***************************************************************************)
Bytes == 0..255

AluCodes == {105, 233}

InitAlu ==
    \E a \in Bytes, data \in Bytes, carry \in BOOLEAN, code \in AluCodes :
        /\ bus = [MockBus_new EXCEPT
                    !.space = LoadProgram(Empty, <<code, data>>, ProgStart)]
        /\ cpu = [CPU_new EXCEPT !.program_counter = ProgStart,
                                 !.program_end = ProgStart + 2,
                                 !.register_a = a,
                                 !.flags = FlagSet(@, CARRY, carry)]
        /\ last = NoOp
        /\ nmi_sets = 0
        /\ ops = 0

NextAlu == CpuStep /\ UNCHANGED ops

SpecAlu == InitAlu /\ [][NextAlu]_vars

(***************************************************************************)
(* SpecOps: single instructions of the interpreter on the MockBus          *)
(***************************************************************************)
MaxOpSteps == 3

OpsEnd == 600

\* BRK; pad; INX; JMP 108; handler: RTI; NOP
ProgBrk == <<0, 234, 232, 76, 108, 0, 64, 234>>

\* memory holding the 16-bit value v at addr, low byte first
PutU16(space, addr, v) == Put(Put(space, addr, v % 256), addr + 1, v \div 256)

BrkScenarios ==
    { [prog |-> ProgBrk, s |-> sp, a |-> 0, flags |-> f,
       mem |-> Put(PutU16(Empty, BRK.vector_addr, v), 512, 64)]
        : sp \in {STACK_RESET, 1}, f \in {32, 36, 227, 231}, v \in {106, 512} }

\* PLP with every byte on top of the stack
PlpScenarios ==
    { [prog |-> <<40>>, s |-> sp, a |-> 0, flags |-> 36,
       mem |-> Put(Empty, STACK + Wrap8(sp + 1), b)]
        : sp \in {STACK_RESET, 255}, b \in Bytes }

\* RTI with every status byte and a return address on the stack
RtiScenarios ==
    { [prog |-> <<64>>, s |-> sp, a |-> 0, flags |-> 36,
       mem |-> Put(Put(Put(Empty, STACK + Wrap8(sp + 1), b),
                       STACK + Wrap8(sp + 2), r % 256),
                   STACK + Wrap8(sp + 3), r \div 256)]
        : sp \in {250, STACK_RESET, 255}, b \in Bytes, r \in {0, 101, 564} }

\* PHA; PLA at every stack pointer
StackScenarios ==
    { [prog |-> <<72, 104>>, s |-> sp, a |-> b, flags |-> 36, mem |-> Empty]
        : sp \in Bytes, b \in {1, 128, 255} }

\* subroutine and jump targets: the operand's own address, the next
\* instruction, the instruction itself, and addresses elsewhere
Targets == {0, 100, 101, 103, 512, 4660, 65535}

\* JSR target with an RTS at the target and after the JSR
JsrScenarios ==
    { [prog |-> <<32, t % 256, t \div 256, 96>>, s |-> sp, a |-> 0, flags |-> 36,
       mem |-> Put(Empty, t, 96)]
        : sp \in {STACK_RESET, 1, 0}, t \in Targets \ {65535} }

JmpScenarios ==
    { [prog |-> <<76, t % 256, t \div 256>>, s |-> STACK_RESET, a |-> 0,
       flags |-> 36, mem |-> Empty]
        : t \in Targets }

\* BNE with every offset byte, with Z clear (taken) and Z set (not taken)
BranchScenarios ==
    { [prog |-> <<208, j>>, s |-> STACK_RESET, a |-> 0, flags |-> f, mem |-> Empty]
        : j \in Bytes, f \in {36, 38} }

\* JMP (P) with the target's low byte lo at P and its high byte hi in P's
\* page, and other bytes at P + 1 and at the start of P's page
JmpIndirectScenarios ==
    { [prog |-> <<108, P % 256, P \div 256>>, s |-> STACK_RESET, a |-> 0,
       flags |-> 36,
       mem |-> Put(Put(Put(Put(Empty, Wrap16(P + 1), 86), BitAnd(P, 65280), 120),
                       P, lo),
                   BitAnd(P, 65280) + Wrap8(P + 1), hi)]
        : P \in {255, 767, 784, 12543, 65535}, lo \in {52, 101}, hi \in {0, 18} }

OpsScenarios ==
    BrkScenarios \cup PlpScenarios \cup RtiScenarios \cup StackScenarios
        \cup JsrScenarios \cup JmpScenarios \cup BranchScenarios
        \cup JmpIndirectScenarios

InitOps ==
    \E sc \in OpsScenarios :
        /\ bus = [MockBus_new EXCEPT
                    !.space = LoadProgram(sc.mem, sc.prog, ProgStart)]
        /\ cpu = [CPU_new EXCEPT !.program_counter = ProgStart,
                                 !.program_end = OpsEnd,
                                 !.register_a = sc.a,
                                 !.flags = sc.flags,
                                 !.stack_pointer = sc.s]
        /\ last = NoOp
        /\ nmi_sets = 0
        /\ ops = 0

NextOps ==
    /\ ops < MaxOpSteps
    /\ ops' = ops + 1
    /\ CpuStep

SpecOps == InitOps /\ [][NextOps]_vars

(***************************************************************************)
(* SpecAddr: instructions that address memory through AddressingMode, on   *)
(* the MockBus, in a build with and without overflow checks                *)
(***************************************************************************)
MaxAddrSteps == 2

\* STA/LDA zp,X and STX/LDX zp,Y with operand o and index i; the bytes at
\* (o + i) mod 256 and at 256 + (o + i) mod 256 differ
ZeroPageScenarios ==
    { [prog |-> <<code, o, 234>>,
       x |-> IF code \in {149, 181} THEN i ELSE 119,
       y |-> IF code \in {150, 182} THEN i ELSE 0,
       a |-> 119, flags |-> 36, checks |-> chk,
       mem |-> Put(Put(Empty, (o + i) % 256, 17), 256 + ((o + i) % 256), 34)]
        : code \in {149, 150, 181, 182}, o \in {0, 1, 128, 255},
          i \in {0, 1, 128, 255}, chk \in BOOLEAN }

\* STA/LDA (zp,X) and (zp),Y with the pointer at p: the base $0240 has its
\* low byte at p and its high byte at (p + 1) mod 256; $0100 holds $03
IndirectScenarios ==
    { [prog |-> <<code, Wrap8(p + 256 - i), 234>>,
       x |-> IF code \in {129, 161} THEN i ELSE 0,
       y |-> IF code \in {145, 177} THEN yy ELSE 0,
       a |-> 119, flags |-> 36, checks |-> chk,
       mem |-> Put(Put(Put(Put(Put(Empty, 256, 3), p, 64), Wrap8(p + 1), 2),
                       576 + yy, 17), 832 + yy, 34)]
        : code \in {129, 161}, p \in {16, 254, 255}, i \in {0, 15, 32},
          yy \in {0}, chk \in BOOLEAN }
    \cup
    { [prog |-> <<code, p, 234>>, x |-> 0, y |-> yy,
       a |-> 119, flags |-> 36, checks |-> chk,
       mem |-> Put(Put(Put(Put(Put(Empty, 256, 3), p, 64), Wrap8(p + 1), 2),
                       576 + yy, 17), 832 + yy, 34)]
        : code \in {145, 177}, p \in {16, 254, 255}, yy \in {0, 5},
          chk \in BOOLEAN }

\* DCP $10 with every byte M at $10, with the carry clear and set
DcpScenarios ==
    { [prog |-> <<199, 16, 234>>, x |-> 0, y |-> 0, a |-> acc, flags |-> f,
       checks |-> FALSE, mem |-> Put(Empty, 16, M)]
        : acc \in {0, 1, 2, 127, 128, 129, 254, 255}, M \in Bytes, f \in {36, 37} }

AddrScenarios == ZeroPageScenarios \cup IndirectScenarios \cup DcpScenarios

InitAddr ==
    \E sc \in AddrScenarios :
        /\ bus = [MockBus_new EXCEPT
                    !.space = LoadProgram(sc.mem, sc.prog, ProgStart)]
        /\ cpu = [CPU_new EXCEPT !.program_counter = ProgStart,
                                 !.program_end = OpsEnd,
                                 !.register_a = sc.a,
                                 !.register_x = sc.x,
                                 !.register_y = sc.y,
                                 !.flags = sc.flags]
        /\ last = [NoOp EXCEPT !.scen = [checks |-> sc.checks]]
        /\ nmi_sets = 0
        /\ ops = 0

NextAddr ==
    /\ ops < MaxAddrSteps
    /\ ops' = ops + 1
    /\ CpuStep

SpecAddr == InitAddr /\ [][NextAddr]_vars

(***************************************************************************)
(* SpecRom: Rom::load applied to iNES images                               *)
(***************************************************************************)
PRG_ROM_PAGE_SIZE == 16384
CHR_ROM_PAGE_SIZE == 8192
PRG_RAM_PAGE_SIZE == 8192
TRAINER == 4

\* b"NES\x1A"
MAGIC == <<78, 69, 83, 26>>

\* An image is its length and its bytes (a byte that is 0 is not stored).
\* bytes::complete::tag: Error unless the input starts with the tag
TagMagic(img) ==
    img.len >= Len(MAGIC) /\ \A k \in 1..Len(MAGIC) : Get(img.data, k - 1) = MAGIC[k]

\* the bytes of the image from offset off on, len of them, re-based at 0
Slice(img, off, len) ==
    [k \in {d - off : d \in {e \in DOMAIN img.data : e >= off /\ e < off + len}}
        |-> img.data[k + off]]

RomErr(msg) == [ok |-> FALSE, err |-> msg, rom |-> <<>>]

\* Rom::load: Rom::_load with its three kinds of failure turned into messages
Rom_load(img) ==
    IF ~TagMagic(img) \/ img.len < 8 THEN RomErr("failed to read file")
    ELSE LET len_prg_rom == Get(img.data, 4)
             len_chr_rom == Get(img.data, 5)
             byte6 == Get(img.data, 6)
             byte7 == Get(img.data, 7)
             trainer == IF BitAnd(byte6, TRAINER) = TRAINER THEN 512 ELSE 0
             prg == PRG_ROM_PAGE_SIZE * len_prg_rom
             chr == CHR_ROM_PAGE_SIZE * len_chr_rom
         IN  IF BitAnd(byte7, 12) = 8 THEN RomErr("NES2.0 format is not supported")
             ELSE IF img.len < 10 THEN RomErr("failed to read file")
             ELSE IF img.len < 16 + trainer + prg + chr
                  THEN RomErr("Unexpected end of file")
             ELSE [ok |-> TRUE, err |-> "",
                   rom |-> [trainer |-> trainer # 0,
                            prg_rom |-> Slice(img, 16 + trainer, prg), prg_len |-> prg,
                            chr_rom |-> Slice(img, 16 + trainer + prg, chr), chr_len |-> chr,
                            mapper |-> BitAnd(byte7, 240) + (byte6 \div 16),
                            pal |-> Get(img.data, 9) % 2 = 1,
                            ram_size |-> PRG_RAM_PAGE_SIZE * Get(img.data, 8),
                            rom_flags |-> BitAnd(15, byte6)]]

\* create_rom of the tests: header, trainer if flagged, PRG filled with 1,
\* CHR filled with 2 (first and last byte of each kept), cut bytes short
TestRom(magic3, len_prg, len_chr, b6, b7, cut) ==
    LET trainer == IF BitAnd(b6, TRAINER) = TRAINER THEN 512 ELSE 0
        prg0 == 16 + trainer
        chr0 == prg0 + PRG_ROM_PAGE_SIZE * len_prg
        full == chr0 + CHR_ROM_PAGE_SIZE * len_chr
        hdr == Put(Put(Put(Put(Put(Put(Put(Put(Empty, 0, 78), 1, 69), 2, 83), 3, magic3),
                   4, len_prg), 5, len_chr), 6, b6), 7, b7)
        all == Put(Put(Put(hdr, prg0, 1), chr0 - 1, 1), chr0, IF len_chr > 0 THEN 2 ELSE 0)
        len == IF cut > full THEN 0 ELSE full - cut
    IN  [len |-> len, data |-> [k \in {d \in DOMAIN all : d < len} |-> all[k]]]

\* the header's mapper number: high nibble of byte 7, then of byte 6
ImageMapper(img) == BitAnd(Get(img.data, 7), 240) + (Get(img.data, 6) \div 16)

RomImages ==
    { TestRom(m, lp, lc, b6, b7, cut)
        : m \in {26, 27}, lp \in {1, 2}, lc \in {0, 1},
          b6 \in {0, 1, 4, 16, 49, 240}, b7 \in {0, 1, 4, 8, 12, 16, 24},
          cut \in {0, 1} }
    \cup { [len |-> n, data |-> [k \in {d \in DOMAIN TestRom(26, 1, 1, 0, 0, 0).data : d < n}
                                   |-> TestRom(26, 1, 1, 0, 0, 0).data[k]]]
           : n \in {0, 3, 4, 7, 9, 12, 16, 528} }

InitRom ==
    \E img \in RomImages :
        /\ cpu = CPU_new
        /\ bus = MockBus_new
        /\ last = [NoOp EXCEPT !.op = "image", !.data = img]
        /\ nmi_sets = 0
        /\ ops = 0

\* Rom::load(&data) on the image read from the file
RomLoadOp ==
    /\ last.op = "image"
    /\ last' = [last EXCEPT !.op = "load", !.val = Rom_load(last.data)]
    /\ UNCHANGED <<cpu, bus, nmi_sets, ops>>

NextRom == RomLoadOp

SpecRom == InitRom /\ [][NextRom]_vars

(***************************************************************************)
(* SpecTrace: the interpreter on the NES Bus with the trace callback       *)
(***************************************************************************)
MaxTraceSteps == 3

\* $2001..$2007, $4016, $4017
NON_READABLE_ADDR == {8193, 8194, 8195, 8196, 8197, 8198, 8199, 16406, 16407}

\* the address the operand designates, for the modes of the opcode table
get_absolute_addr(m, mode, address) ==
    CASE mode = "ZeroPage_X" -> Wrap8(address + m.cpu.register_x)
      [] mode = "ZeroPage_Y" -> Wrap8(address + m.cpu.register_y)
      [] OTHER -> address

\* trace: the reads of the operand address and of the value stored there
TraceOperand(m, code, begin) ==
    IF OpsMode(code) \in {"Immediate", "NoneAddressing", "Accumulator"} THEN m
    ELSE Bind(IF OpsLen(code) = 2 THEN mem_read(m, begin + 1)
              ELSE mem_read_u16(m, begin + 1), LAMBDA address :
         Bind(get_absolute_addr(address.m, OpsMode(code), address.val), LAMBDA addr :
              IF addr \notin NON_READABLE_ADDR THEN mem_read(address.m, addr).m
              ELSE address.m))

\* trace: the reads of the instruction bytes for the hex dump
TraceDump(m, code, begin) ==
    IF OpsLen(code) = 2 THEN mem_read(m, begin + 1).m
    ELSE IF OpsLen(code) = 3
    THEN Bind(mem_read(m, begin + 1), LAMBDA lo :
         Bind(mem_read(lo.m, begin + 2), LAMBDA hi :
         Bind(mem_read_u16(hi.m, begin + 1), LAMBDA address :
              IF code = 108 THEN [jmp_indirect(address.m) EXCEPT !.cpu = m.cpu]
              ELSE address.m)))
    ELSE m

\* trace(cpu): the state the CPU and its bus are left in
trace(m) ==
    Bind(mem_read(m, m.cpu.program_counter), LAMBDA code :
         IF code.val \notin OpsCodes THEN [code.m EXCEPT !.halt = TRUE]
         ELSE Bind(TraceOperand(code.m, code.val, m.cpu.program_counter), LAMBDA m1 :
                   TraceDump(m1, code.val, m.cpu.program_counter)))

\* operand addresses: RAM, $2002, $2004, $2007, the mirrors $200A and
\* $200F, $4016, PRG-ROM
TraceAddrs == {16, 8194, 8196, 8199, 8202, 8207, 16406, 32768}

\* LDA abs / STA abs, then NOP, in RAM at ProgStart
TraceRam(code, addr) ==
    LoadProgram(Empty, <<code, addr % 256, addr \div 256, 234>>, ProgStart)

InitTrace ==
    \E code \in {141, 173}, addr \in TraceAddrs, ph \in PpuPhases, v \in {0, 8197},
       hi \in BOOLEAN :
        /\ cpu = [CPU_new EXCEPT !.program_counter = ProgStart,
                                 !.program_end = OpsEnd, !.register_a = 9]
        /\ bus = [Bus_new(TestPrg, 16384, TestChr, 8192, HORIZONTAL) EXCEPT
                    !.ram = TraceRam(code, addr),
                    !.ppu = [@ EXCEPT !.vram = TestVram,
                                      !.addr_hi = v \div 256, !.addr_lo = v % 256,
                                      !.hi_ptr = hi,
                                      !.status = ph.status, !.line = ph.line,
                                      !.mask = ph.mask, !.oam_data = ph.oam_data]]
        /\ last = NoOp
        /\ nmi_sets = 0
        /\ ops = 0

\* the callback of interpret_fn with tracing switched on
TraceOp ==
    /\ cpu.program_counter < cpu.program_end
    /\ ~Aborted(bus)
    /\ ~last.halt
    /\ last.op # "trace"
    /\ \E m \in {trace(Machine(cpu, bus))} :
           /\ cpu' = m.cpu
           /\ bus' = m.bus
           /\ last' = [NoOp EXCEPT !.op = "trace", !.at = cpu.program_counter,
                                   !.code = Get(bus.ram, cpu.program_counter),
                                   !.halt = m.halt]
    /\ UNCHANGED nmi_sets

NextTrace ==
    /\ ops < MaxTraceSteps
    /\ ops' = ops + 1
    /\ \/ TraceOp
       \/ CpuStep

SpecTrace == InitTrace /\ [][NextTrace]_vars

(***************************************************************************)
(* Properties of the NMI path (SpecNmi)                                    *)
(***************************************************************************)

\* C2: the Bus pending-NMI latch is a single-slot mailbox that only the
\* CPU's poll empties: once set it stays set across further Bus ticks until
\* poll_nmi_status is called; a poll returns the signal once and leaves the
\* latch empty, so a second poll without a new PPU NMI returns nothing.
C2_LatchHeldUntilPoll ==
    [][ /\ (last'.op = "tick" /\ bus.nmi_interrupt # None
              => bus'.nmi_interrupt # None)
        /\ (last'.op = "poll"
              => /\ bus'.nmi_interrupt = None
                 /\ (last'.serviced <=> bus.nmi_interrupt # None))
        /\ (last.op = "poll" /\ last'.op = "poll" => ~last'.serviced) ]_vars

\* C3: between one entry into scanline 241 and the next, the PPU sets its
\* NMI latch at most once, under every interleaving of ticks, CTRL writes
\* and STATUS reads.
C3_AtMostOneNmiPerVBlank == nmi_sets <= 1

\* C4: a CTRL write latches an NMI immediately if and only if it changes
\* bit 7 from 0 to 1 while the STATUS VBlank bit is set; otherwise the PPU
\* latch is left as it was.
C4_CtrlWriteLatchesOnRisingEdge ==
    [][ last'.op = "write" /\ last'.pos = 8192
          => LET edge == /\ BitAt(bus.ppu.ctrl, 7) = 0
                         /\ BitAt(last'.data, 7) = 1
                         /\ BitAt(bus.ppu.status, 7) = 1
             IN  /\ last'.latched <=> edge
                 /\ edge => bus'.ppu.nmi_interrupt = Some(1)
                 /\ ~edge => bus'.ppu.nmi_interrupt = bus.ppu.nmi_interrupt ]_vars

\* a CTRL write has just latched an NMI during VBlank
C4_Witness ==
    /\ last.op = "write" /\ last.pos = 8192 /\ last.latched
    /\ bus.ppu.nmi_interrupt = Some(1)
    /\ is_in_vblank(bus.ppu.status)

(***************************************************************************)
(* Properties of the memory map (Spec)                                     *)
(***************************************************************************)
CanonIo(a) == 8192 + (a % 8)

\* C8: for every address a in 0x2008..0x3FFF a CPU read or write at a has
\* the same return value and the same effect on all Bus/PPU state, aborts
\* included, as the same access at 0x2000 + (a & 7).
C8_PpuRegisterMirroring ==
    [][ /\ (last'.op = "write" /\ last'.pos \in 8200..16383
              => bus' = BusWrite(bus, CanonIo(last'.pos), last'.data))
        /\ (last'.op = "read" /\ last'.pos \in 8200..16383
              => LET r == BusRead(bus, CanonIo(last'.pos))
                 IN  bus' = r.bus /\ last'.val = r.val) ]_vars

\* a write at $3456 has acted as the second $2006 write
C8_Witness ==
    /\ last.op = "write" /\ last.pos = 13398 /\ last.data = 33
    /\ bus.ppu.addr_lo = 33 /\ bus.ppu.hi_ptr
    /\ ~Aborted(bus)

\* C9: for every address a in 0x0000..0x1FFF a CPU write at a stores into
\* RAM[a mod 0x0800] and a CPU read returns RAM[a mod 0x0800], so the four
\* mirrors of a cell always read the same byte; nothing else changes.
C9_RamMirroring ==
    [][ /\ (last'.op = "write" /\ last'.pos <= 8191
              => /\ bus' = [bus EXCEPT !.ram = Put(bus.ram, last'.pos % 2048,
                                                    last'.data)]
                 /\ \A a \in {5, 2047} : \A k \in 0..3 :
                       BusRead(bus', a + 2048 * k).val = Get(bus'.ram, a))
        /\ (last'.op = "read" /\ last'.pos <= 8191
              => /\ bus' = bus
                 /\ last'.val = Get(bus.ram, last'.pos % 2048)) ]_vars

\* a read at the mirror 0x1805 returns the byte stored in cell 5
C9_Witness ==
    /\ last.op = "read" /\ last.pos = 6149 /\ last.val = 33
    /\ Get(bus.ram, 5) = 33

\* C10: a CPU read of any address in 0x4020..0x7FFF returns 0 and a CPU
\* write to any address in 0x4020..0x5FFF is ignored; neither aborts the
\* emulator nor changes any state.
C10_UnmappedIsBenign ==
    [][ /\ (last'.op = "read" /\ last'.pos \in 16416..32767
              => ~Aborted(bus') /\ last'.val = 0 /\ bus' = bus)
        /\ (last'.op = "write" /\ last'.pos \in 16416..24575
              => ~Aborted(bus') /\ bus' = bus) ]_vars

(***************************************************************************)
(* Properties of NMI delivery to the CPU (SpecSys)                         *)
(***************************************************************************)

\* C1: whenever a PPU tick of the instruction just executed moved the
\* scanline to 241 with CTRL bit 7 set, the next instruction the CPU
\* executes is the first one of the NMI handler (vector 0xFFFA): the NMI is
\* serviced at the next opcode boundary, whatever the instruction was and
\* however many Bus ticks it issued.
C1_NmiDeliveredAtNextBoundary ==
    [][ last.op = "step" /\ last.raised /\ last'.op = "step"
          => /\ last'.int.taken
             /\ last'.at = mem_read_u16(Machine(cpu, bus), NMI.vector_addr).val ]_vars

(***************************************************************************)
(* Properties of the interrupt sequence (SpecCpu)                          *)
(***************************************************************************)

\* C5: servicing an NMI pushes PC high byte then low byte, then a copy of P
\* with bit 5 set and bit 4 clear, sets I in the live P and loads PC from
\* 0xFFFA/0xFFFB; S decreases by 3 and A, X, Y are unchanged.
C5_NmiServiceSequence ==
    [][ last'.op = "step" /\ last'.int.taken
          => LET i == last'.int
             IN  /\ i.b3 = cpu.program_counter \div 256
                 /\ i.b2 = cpu.program_counter % 256
                 /\ i.b1 = Insert(Remove(cpu.flags, BREAK), BREAK2)
                 /\ i.flags = Insert(cpu.flags, INTERRUPT_DISABLE)
                 /\ i.pc = Get(bus.space, 65531) * 256 + Get(bus.space, 65530)
                 /\ i.s = Wrap8(cpu.stack_pointer + 253)
                 /\ i.a = cpu.register_a
                 /\ i.x = cpu.register_x
                 /\ i.y = cpu.register_y ]_vars

\* the run loop of interpret_fn has exited
Exited == cpu.program_counter >= cpu.program_end

IsS6(vec) ==
    /\ last.scen.prog = 1 /\ last.scen.vec = vec
    /\ last.scen.pending /\ last.scen.x = 0

\* Scenario S6 as the specification words it: NMI vector 0x006A
C6_S6_Vector6A == IsS6(106) /\ Exited => cpu.register_x = 4

\* C6: scenario S6 with the NMI vector holding 0x0068, the address of the
\* handler's LDX #5: an NMI pending at start, X = 0 and the bytes
\* CA 4C 6A 00 A2 05 40 at address 100, run from PC = 100 until the run loop
\* exits, ends with X = 4.
C6_S6_Vector68 == IsS6(104) /\ Exited => cpu.register_x = 4

\* S6 with vector 0x0068 has run to the exit of the loop
C6_Witness ==
    /\ IsS6(104) /\ Exited /\ last.op = "step"
    /\ cpu.register_x = 4 /\ bus.cycles = 21

\* cycles of an instruction other than a branch; the BRK that ends a test
\* run returns before the tick
PlainCycles(code) == IF code = 0 THEN 0 ELSE OpsCycles(code)

\* C7: an NMI pending at an opcode boundary at address p is serviced exactly
\* once and the interrupted instruction is not lost: the handler at the NMI
\* vector runs first, its RTI returns to p with S restored, the instruction
\* at p is the next one executed, no NMI is serviced when none is latched,
\* and the service adds 2 CPU cycles to the executed instruction's cycles.
C7_NmiServicedOnceAndResumes ==
    [][ last'.op = "step"
          => LET pend == bus.nmi_interrupt # None
                 vec == Get(bus.space, 65531) * 256 + Get(bus.space, 65530)
                 ticks == bus'.cycles - bus.cycles - (IF pend THEN 2 ELSE 0)
             IN  /\ last'.int.taken <=> pend
                 /\ bus'.nmi_interrupt = None
                 /\ pend => last'.at = vec
                 /\ last'.after_rti
                      => /\ cpu'.program_counter = last'.ret.pc
                         /\ cpu'.stack_pointer = last'.ret.s
                         /\ pend => last'.ret.pc = cpu.program_counter
                 /\ last.after_rti
                      => last'.at = last.ret.pc /\ ~last'.int.taken
                 /\ IF last'.code \in {208, 240}
                    THEN ticks \in {2, 3, 4}
                    ELSE ticks = PlainCycles(last'.code) ]_vars

\* the handler has returned to the interrupted address and the instruction
\* there has just executed
C7_Witness ==
    /\ last.op = "step" /\ last.scen.pending
    /\ ~last.ret.active /\ last.at = last.ret.pc /\ last.ret.pc = ProgStart
    /\ ~last.after_rti /\ ~last.int.taken
    /\ cpu.stack_pointer = last.scen.s

(***************************************************************************)
(* Properties of PRG-ROM reads and OAM DMA (SpecDma)                       *)
(***************************************************************************)

\* C11: a CPU read at a in 0x8000..0xFFFF returns prg_rom[(a - 0x8000) mod
\* 0x4000] with a 16 KiB PRG and prg_rom[a - 0x8000] with a 32 KiB PRG, so
\* with 16 KiB the addresses 0x8000+k and 0xC000+k read the same byte; the
\* read changes no state.
C11_PrgRomDecoding ==
    [][ last'.op = "read" /\ last'.pos >= 32768
          => /\ bus' = bus
             /\ last'.val = IF bus.prg_len = 16384
                            THEN Get(bus.prg_rom, (last'.pos - 32768) % 16384)
                            ELSE Get(bus.prg_rom, last'.pos - 32768)
             /\ bus.prg_len = 16384 /\ last'.pos >= 49152
                  => last'.val = BusRead(bus, last'.pos - 16384).val ]_vars

\* a read at 0xC001 of a 16 KiB cartridge has returned the byte at offset 1
C11_Witness ==
    /\ last.op = "read" /\ last.pos = 49153 /\ last.val = 7
    /\ bus.prg_len = 16384 /\ ~Aborted(bus)

\* C12: a write of h to $4014 while OAM_ADDR = a makes OAM[(a + i) mod 256]
\* equal to the CPU-space byte at (h << 8) + i for every i in 0..255, with
\* the CPU-space contents as they were before the write.
C12_OamDmaCopiesPage ==
    [][ last'.op = "write" /\ last'.pos = 16404
          => /\ ~Aborted(bus')
             /\ \A i \in 0..255 :
                   Get(bus'.ppu.oam_data, (bus.ppu.oam_addr + i) % 256)
                     = BusRead(bus, last'.data * 256 + i).val ]_vars

\* C39: for every page h for which the write to $4014 completes, only the
\* OAM contents change: RAM, V, the $2007 read buffer, the VBlank bit, the
\* toggles, the joypads, OAM_ADDR (equal at the end) and the cycle counters
\* are as before the write.
C39_OamDmaOnlyTouchesOam ==
    [][ last'.op = "write" /\ last'.pos = 16404 /\ ~Aborted(bus')
          => bus' = [bus EXCEPT !.ppu.oam_data = bus'.ppu.oam_data] ]_vars

(***************************************************************************)
(* Properties of the PPU data port and latches (SpecPpu)                   *)
(***************************************************************************)
\* C13: a read of $2007 with V in $0000..$2FFF returns the read buffer as it
\* was, reloads the buffer with the (mirrored) byte at V and advances V by
\* the CTRL step (1 or 32) with the carry into the high byte; so after V
\* was set to a the first read is stale, the second returns mem[a] and the
\* third mem[a + step].
C13_BufferedRead ==
    [][ last'.op = "read" /\ last'.pos = 8199 /\ AddrRead(bus.ppu) <= 12287
          => LET p == bus.ppu
                 v == AddrRead(p)
                 step == IF BitAt(p.ctrl, 2) = 1 THEN 32 ELSE 1
             IN  /\ ~Aborted(bus')
                 /\ last'.val = p.read_data_buf
                 /\ bus'.ppu.read_data_buf
                      = IF v <= 8191 THEN Get(p.chr_rom, v)
                        ELSE Get(p.vram, mirror_vram_addr(p, v))
                 /\ AddrRead(bus'.ppu) = (v + step) % 16384
                 /\ last.op = "read" /\ last.pos = 8199 /\ v >= step
                    /\ v - step <= 12287
                      => last'.val = IF v - step <= 8191 THEN Get(p.chr_rom, v - step)
                                     ELSE Get(p.vram, mirror_vram_addr(p, v - step)) ]_vars

\* three reads from V = $21FF: the third returns the byte at $2200
C13_Witness ==
    /\ ops = 3 /\ last.op = "read" /\ last.pos = 8199
    /\ last.val = 119 /\ AddrRead(bus.ppu) = 8706
    /\ bus.ppu.read_data_buf = 0 /\ ~Aborted(bus)

\* C14: a read of $2007 with V anywhere in $3F00..$3FFF returns the palette
\* byte addressed by V at once, never aborts, and advances V by the step.
C14_PaletteReadImmediate ==
    [][ last'.op = "read" /\ last'.pos = 8199
        /\ AddrRead(bus.ppu) >= 16128 /\ AddrRead(bus.ppu) <= 16383
          => LET p == bus.ppu
                 v == AddrRead(p)
                 step == IF BitAt(p.ctrl, 2) = 1 THEN 32 ELSE 1
             IN  /\ ~Aborted(bus')
                 /\ last'.val = Get(p.palette_table, (v - 16128) % PaletteLen)
                 /\ AddrRead(bus'.ppu) = (v + step) % 16384 ]_vars

\* C15: a write to $2007 with V = $3F10/$3F14/$3F18/$3F1C stores into the
\* cell of $3F00/$3F04/$3F08/$3F0C: a later read of that address returns
\* the value written.
C15_PaletteWriteMirror ==
    [][ last'.op = "write" /\ last'.pos = 8199
        /\ AddrRead(bus.ppu) \in {16144, 16148, 16152, 16156}
          => /\ ~Aborted(bus')
             /\ read_data(AddrSet(bus'.ppu, AddrRead(bus.ppu) - 16)).val
                  = last'.data ]_vars

\* C16: V never exceeds $3FFF, and a write to $2006 that would make it
\* larger leaves the value reduced modulo $4000.
C16_AddrWithin14Bits ==
    [][ /\ AddrRead(bus'.ppu) <= 16383
        /\ last'.op = "write" /\ last'.pos = 8198
             => AddrRead(bus'.ppu)
                  = (IF bus.ppu.hi_ptr
                     THEN last'.data * 256 + bus.ppu.addr_lo
                     ELSE bus.ppu.addr_hi * 256 + last'.data) % 16384 ]_vars

\* $63 then $05 written to $2006 leave V = $2305
C16_Witness ==
    /\ last.op = "write" /\ last.pos = 8198 /\ last.data = 5
    /\ AddrRead(bus.ppu) = 8965 /\ bus.ppu.hi_ptr

\* C17: $2005 and $2006 share one first/second-write toggle: after exactly
\* one write to $2005 the next $2006 write sets the low byte of V, and
\* after exactly one write to $2006 the next $2005 write sets scroll_y.
C17_SharedToggle ==
    [][ /\ last'.op = "write" /\ last'.pos = 8198
           /\ bus.ppu.scroll_latch /\ bus.ppu.hi_ptr
             => /\ bus'.ppu.addr_lo = last'.data
                /\ bus'.ppu.addr_hi = bus.ppu.addr_hi
        /\ last'.op = "write" /\ last'.pos = 8197
           /\ ~bus.ppu.scroll_latch /\ ~bus.ppu.hi_ptr
             => /\ bus'.ppu.scroll_y = last'.data
                /\ bus'.ppu.scroll_x = bus.ppu.scroll_x ]_vars

\* C18: a read of $2002 returns the status as it was, clears VBlank and
\* resets the toggle whatever its state, so that the next $2006 write is
\* the high byte and the next $2005 write is scroll_x; nothing else changes.
C18_StatusRead ==
    [][ last'.op = "read" /\ last'.pos = 8194
          => /\ last'.val = bus.ppu.status
             /\ bus' = [bus EXCEPT
                          !.ppu = [@ EXCEPT !.status = bus.ppu.status
                                               - 128 * BitAt(bus.ppu.status, 7),
                                            !.hi_ptr = TRUE,
                                            !.scroll_latch = FALSE]]
             /\ \A d \in AddrBytes :
                    write_to_ppu_addr(bus'.ppu, d).addr_hi = d % 64
             /\ \A d \in ScrollBytes :
                    write_to_scroll(bus'.ppu, d).scroll_x = d ]_vars

\* $2002 read in VBlank after one write to $2006 and one to $2005
C18_Witness ==
    /\ ops = 3 /\ last.op = "read" /\ last.pos = 8194 /\ last.val = 128
    /\ bus.ppu.status = 0 /\ bus.ppu.hi_ptr /\ ~bus.ppu.scroll_latch
    /\ bus.ppu.addr_hi = 5 /\ bus.ppu.scroll_x = 7

\* C19: in a PPU created for a cartridge with Vertical mirroring a byte
\* written at $2000+k is read back at $2800+k, a byte written at $2C00+k is
\* read back at $2400+k, and a write at $2000+k never changes $2400+k.
C19_VerticalMirroring ==
    [][ last'.op = "write" /\ last'.pos = 8199 /\ bus.rom_mirroring = VERTICAL
          => LET v == AddrRead(bus.ppu) IN
             /\ v >= 8192 /\ v <= 9215
                  => /\ PpuPeek(bus'.ppu, v + 2048) = last'.data
                     /\ PpuPeek(bus'.ppu, v + 1024) = PpuPeek(bus.ppu, v + 1024)
             /\ v >= 11264 /\ v <= 12287
                  => PpuPeek(bus'.ppu, v - 2048) = last'.data ]_vars

\* C20: with Horizontal mirroring a byte written at $2400+k is read back at
\* $2000+k, a byte written at $2800+k is read back at $2C00+k, a write at
\* $2000+k never changes $2800+k, and every mirrored index is inside the
\* 2 KiB of VRAM.
C20_HorizontalMirroring ==
    [][ last'.op = "write" /\ last'.pos = 8199 /\ bus.ppu.mirroring = HORIZONTAL
          => LET v == AddrRead(bus.ppu) IN
             /\ v >= 9216 /\ v <= 10239
                  => PpuPeek(bus'.ppu, v - 1024) = last'.data
             /\ v >= 10240 /\ v <= 11263
                  => PpuPeek(bus'.ppu, v + 1024) = last'.data
             /\ v >= 8192 /\ v <= 9215
                  => PpuPeek(bus'.ppu, v + 2048) = PpuPeek(bus.ppu, v + 2048)
             /\ v >= 8192 /\ v <= 12287
                  => /\ mirror_vram_addr(bus.ppu, v) \in 0..2047
                     /\ \A i \in DOMAIN bus'.ppu.vram : i \in 0..2047 ]_vars

\* a byte written at $2405 is what a read at $2005 loads
C20_Witness ==
    /\ last.op = "write" /\ last.pos = 8199 /\ last.data = 33
    /\ AddrRead(bus.ppu) = 9222 /\ bus.ppu.mirroring = HORIZONTAL
    /\ PpuPeek(bus.ppu, 8197) = 33 /\ PpuPeek(bus.ppu, 9221) = 33
    /\ ~Aborted(bus)

(***************************************************************************)
(* Properties of the scanline clock (SpecFrame)                            *)
(***************************************************************************)
\* C21: the VBlank bit is set when the scanline becomes 241 and cleared,
\* with sprite-0 hit, when the scanline becomes 261; with no read of $2002
\* VBlank is set exactly while the scanline is in 241..260.
C21_VBlankWindow ==
    [][ last'.op = "tick"
          => /\ is_in_vblank(bus'.ppu.status)
                  <=> (bus'.ppu.line >= 241 /\ bus'.ppu.line <= 260)
             /\ bus'.ppu.line = 261 => BitAt(bus'.ppu.status, 6) = 0 ]_vars

\* C22: a tick reports frame-ready exactly when it wraps the scanline from
\* 261 to 0, once per 262 scanlines, and the host callback runs exactly once
\* inside each such tick and in no other.
C22_FrameReady ==
    [][ last'.op = "tick"
          => /\ last'.render <=> (bus.ppu.line = 261 /\ bus'.ppu.line = 0)
             /\ bus'.ppu.line \in {bus.ppu.line, (bus.ppu.line + 1) % 262}
             /\ bus'.callbacks = bus.callbacks + (IF last'.render THEN 1 ELSE 0) ]_vars

\* the tick that ends the second frame
C22_Witness ==
    /\ last.op = "tick" /\ last.render
    /\ bus.callbacks = 2 /\ bus.ppu.line = 0

\* C23: a tick of n CPU cycles adds n to the CPU cycle counter and 3n dots
\* to the PPU: (frames * 262 + scanline) * 341 + dot is 3 times the CPU
\* cycles ticked since construction.
C23_Lockstep ==
    [][ last'.op = "tick"
          => /\ bus'.cycles = bus.cycles + last'.data
             /\ (bus'.callbacks * 262 + bus'.ppu.line) * 341 + bus'.ppu.cycles
                  = 3 * (bus'.cycles - 7) ]_vars

\* a tick of 7 cycles that crossed the frame boundary
C23_Witness ==
    /\ last.op = "tick" /\ last.render /\ last.data = 7
    /\ bus.callbacks = 1 /\ bus.ppu.line = 0 /\ bus.ppu.cycles < 21

\* C38: after every tick issued by the CPU run loop the PPU dot counter is
\* in 0..340 and the scanline counter in 0..261; a tick leaves the scanline
\* where it was, increases it by 1, or wraps it from 261 to 0.
C38_CounterRanges ==
    [][ last'.op = "tick"
          => /\ bus'.ppu.cycles \in 0..340
             /\ bus'.ppu.line \in 0..261
             /\ \/ bus'.ppu.line = bus.ppu.line
                \/ bus'.ppu.line = bus.ppu.line + 1
                \/ bus.ppu.line = 261 /\ bus'.ppu.line = 0 ]_vars

\* a tick that left the PPU on the last dot of the last scanline
C38_Witness ==
    last.op = "tick" /\ bus.ppu.line = 261 /\ bus.ppu.cycles = 340

C24_BrkUnconditional ==
    [][ /\ last'.op = "step" /\ last'.code = 0
           /\ Get(bus.space, 65534) + 256 * Get(bus.space, 65535) # 0
             => /\ Get(bus'.space, STACK + cpu.stack_pointer)
                     = (last'.at + 2) \div 256
                /\ Get(bus'.space, STACK + Wrap8(cpu.stack_pointer + 255))
                     = (last'.at + 2) % 256
                /\ Contains(cpu'.flags, INTERRUPT_DISABLE)
                /\ cpu'.program_counter
                     = Get(bus.space, 65534) + 256 * Get(bus.space, 65535)
        /\ last'.op = "step" /\ last'.code = 64 /\ last.code = 0 /\ last.op = "step"
             => cpu'.program_counter = last.at + 2 ]_vars

\* C25: the status byte BRK pushes has bits 4 and 5 set and its other six
\* bits equal to P at the time of the BRK.
C25_BrkPushedStatus ==
    [][ last'.op = "step" /\ last'.code = 0
        /\ cpu'.stack_pointer = Wrap8(cpu.stack_pointer + 253)
          => LET pushed == Get(bus'.space, STACK + Wrap8(cpu.stack_pointer + 254))
             IN  /\ BitAt(pushed, 4) = 1
                 /\ BitAt(pushed, 5) = 1
                 /\ \A k \in {0, 1, 2, 3, 6, 7} :
                        BitAt(pushed, k) = BitAt(cpu.flags, k) ]_vars

\* C26: after PLP or RTI P is the popped byte with bit 4 cleared and bit 5
\* set, for every popped byte; RTI then loads PC from the next two popped
\* bytes (low, then high) with nothing added; S grows by 1 for PLP and by 3
\* for RTI.
C26_PullNormalisesB ==
    [][ last'.op = "step" /\ last'.code \in {40, 64}
          => LET sp == cpu.stack_pointer
                 b == Get(bus.space, STACK + Wrap8(sp + 1))
                 lo == Get(bus.space, STACK + Wrap8(sp + 2))
                 hi == Get(bus.space, STACK + Wrap8(sp + 3))
             IN  /\ cpu'.flags = b - 16 * BitAt(b, 4) + 32 * (1 - BitAt(b, 5))
                 /\ last'.code = 40
                      => /\ cpu'.stack_pointer = Wrap8(sp + 1)
                         /\ cpu'.program_counter = last'.at + 1
                 /\ last'.code = 64
                      => /\ cpu'.stack_pointer = Wrap8(sp + 3)
                         /\ cpu'.program_counter = hi * 256 + lo
                 /\ bus'.space = bus.space
                 /\ ~Aborted(bus') /\ ~last'.halt ]_vars

\* RTI at S = $FF popping the status byte $FF and the return address $0234
C26_Witness ==
    /\ last.op = "step" /\ last.code = 64 /\ ops = 1
    /\ cpu.flags = 239 /\ cpu.program_counter = 564 /\ cpu.stack_pointer = 2
    /\ Get(bus.space, STACK) = 255

\* C27: a push writes at $0100 + S and then decrements S, a pop increments
\* S and then reads $0100 + S, both modulo 256: push then pop returns the
\* byte and restores S, without a fault and without touching memory outside
\* page 1.
C27_StackDiscipline ==
    [][ /\ last'.op = "step" /\ last'.code = 72
             => /\ bus'.space = Put(bus.space, STACK + cpu.stack_pointer, cpu.register_a)
                /\ cpu'.stack_pointer = (cpu.stack_pointer + 255) % 256
                /\ ~Aborted(bus') /\ ~last'.halt
        /\ last'.op = "step" /\ last'.code = 104
             => /\ cpu'.stack_pointer = (cpu.stack_pointer + 1) % 256
                /\ cpu'.register_a = Get(bus.space, STACK + cpu'.stack_pointer)
                /\ bus'.space = bus.space
                /\ ~Aborted(bus') /\ ~last'.halt
        /\ last'.op = "step" /\ last'.code = 104 /\ last.op = "step" /\ last.code = 72
             => /\ cpu'.register_a = cpu.register_a
                /\ Get(bus.space, STACK + cpu'.stack_pointer) = cpu.register_a ]_vars

\* PHA at S = $00 left S = $FF, and the PLA that follows returned the byte
C27_Witness ==
    /\ last.op = "step" /\ last.code = 104 /\ ops = 2
    /\ cpu.stack_pointer = 0 /\ cpu.register_a = 128
    /\ Get(bus.space, STACK) = 128

\* C28: JSR at p pushes p + 2 (high byte, then low byte) and sets PC to its
\* operand; RTS pops that value and adds 1; a JSR followed by the matching
\* RTS resumes at p + 3 with S restored, for every subroutine address.
C28_JsrRtsRoundTrip ==
    [][ /\ last'.op = "step" /\ last'.code = 32
             => /\ Get(bus'.space, STACK + cpu.stack_pointer) = (last'.at + 2) \div 256
                /\ Get(bus'.space, STACK + Wrap8(cpu.stack_pointer + 255))
                     = (last'.at + 2) % 256
                /\ cpu'.stack_pointer = Wrap8(cpu.stack_pointer + 254)
                /\ cpu'.program_counter
                     = Get(bus.space, last'.at + 1) + 256 * Get(bus.space, last'.at + 2)
        /\ last'.op = "step" /\ last'.code = 96
             => /\ cpu'.program_counter
                     = Get(bus.space, STACK + Wrap8(cpu.stack_pointer + 1))
                         + 256 * Get(bus.space, STACK + Wrap8(cpu.stack_pointer + 2)) + 1
                /\ cpu'.stack_pointer = Wrap8(cpu.stack_pointer + 2)
        /\ last'.op = "step" /\ last'.code = 96 /\ last.op = "step" /\ last.code = 32
             => cpu'.program_counter = last.at + 3 ]_vars

\* C30: after JMP absolute with operand T, PC = T, for every T.
C30_JmpAbsolute ==
    [][ last'.op = "step" /\ last'.code = 76
          => cpu'.program_counter
               = Get(bus.space, last'.at + 1) + 256 * Get(bus.space, last'.at + 2) ]_vars

\* C31: a taken branch whose operand byte is at q with signed offset d sets
\* PC = (q + 1 + d) mod $10000 for every d and costs the base cycles plus 1,
\* plus 1 more when q + 1 and the target are in different pages; a branch
\* not taken sets PC = q + 1 and costs the base cycles.
C31_BranchTargetAndCost ==
    [][ last'.op = "step" /\ last'.code \in {208, 240}
          => LET q == last'.at + 1
                 d == AsI8(Get(bus.space, q))
                 target == (q + 1 + d + 65536) % 65536
                 taken == (last'.code = 208) # Contains(cpu.flags, ZERO)
                 cost == bus'.cycles - bus.cycles
             IN  IF taken
                 THEN /\ cpu'.program_counter = target
                      /\ cost = 2 + 1 + (IF (q + 1) \div 256 # target \div 256
                                         THEN 1 ELSE 0)
                 ELSE /\ cpu'.program_counter = q + 1
                      /\ cost = 2 ]_vars

\* C32: JMP indirect with pointer address P transfers control to the address
\* whose low byte is the byte at P and whose high byte is the byte at
\* (P & $FF00) | ((P + 1) & $FF): the page of P is never left.
C32_JmpIndirectPageBug ==
    [][ last'.op = "step" /\ last'.code = 108
          => LET P == Get(bus.space, last'.at + 1) + 256 * Get(bus.space, last'.at + 2)
                 lo == Get(bus.space, P)
                 hi == Get(bus.space, BitAnd(P, 65280) + Wrap8(P + 1))
             IN  cpu'.program_counter = hi * 256 + lo ]_vars

\* C33: for ZeroPage,X and ZeroPage,Y the effective address is
\* (operand + index) mod 256 for operand reads and for operand writes: the
\* load takes the byte at that address, the store changes that byte only,
\* for every operand and index.
C33_ZeroPageIndexedWraps ==
    [][ last'.op = "step" /\ last'.code \in {149, 150, 181, 182}
          => LET o == Get(bus.space, last'.at + 1)
                 i == IF last'.code \in {149, 181} THEN cpu.register_x
                      ELSE cpu.register_y
                 ea == (o + i) % 256
             IN  /\ ~Aborted(bus')
                 /\ last'.code = 181 => cpu'.register_a = Get(bus.space, ea)
                 /\ last'.code = 182 => cpu'.register_x = Get(bus.space, ea)
                 /\ last'.code = 149 => bus'.space = Put(bus.space, ea, cpu.register_a)
                 /\ last'.code = 150 => bus'.space = Put(bus.space, ea, cpu.register_x) ]_vars

\* C34: for (Indirect,X) with p = (operand + X) mod 256 and (Indirect),Y
\* with p = operand, the base address has its low byte at p and its high
\* byte at (p + 1) mod 256: the load and the store go to that base (plus Y
\* for (Indirect),Y), also for p = $FF.
C34_IndirectPointerWraps ==
    [][ last'.op = "step" /\ last'.code \in {129, 145, 161, 177}
          => LET o == Get(bus.space, last'.at + 1)
                 p == IF last'.code \in {129, 161}
                      THEN (o + cpu.register_x) % 256 ELSE o
                 base == Get(bus.space, p) + 256 * Get(bus.space, (p + 1) % 256)
                 ea == IF last'.code \in {129, 161} THEN base
                       ELSE Wrap16(base + cpu.register_y)
             IN  /\ ~Aborted(bus')
                 /\ last'.code \in {161, 177} => cpu'.register_a = Get(bus.space, ea)
                 /\ last'.code \in {129, 145}
                        => bus'.space = Put(bus.space, ea, cpu.register_a) ]_vars

\* C37: DCP stores M' = (M - 1) mod 256 at the operand address and leaves
\* C = 1 iff A >= M', Z = 1 iff A = M', N = bit 7 of (A - M') mod 256, for
\* every A, M and prior carry; A is unchanged.
C37_DcpIsDecThenCmp ==
    [][ last'.op = "step" /\ last'.code = 199
          => LET ea == Get(bus.space, last'.at + 1)
                 M1 == Wrap8(Get(bus.space, ea) + 255)
                 A == cpu.register_a
             IN  /\ bus'.space = Put(bus.space, ea, M1)
                 /\ cpu'.register_a = A
                 /\ Contains(cpu'.flags, CARRY) <=> A >= M1
                 /\ Contains(cpu'.flags, ZERO) <=> A = M1
                 /\ Contains(cpu'.flags, NEGATIV)
                        <=> BitAt(Wrap8(A + 256 - M1), 7) = 1 ]_vars

\* C35: Rom::load returns an error for every image whose header carries a
\* mapper number other than 0, as it does for a bad magic, for NES 2.0
\* (bits 2-3 of byte 7 = 0b10) and for a truncated file.
C35_OnlyMapperZeroLoads ==
    last.op = "load"
        => LET img == last.data
               complete == img.len >= 16
                              + (IF BitAnd(Get(img.data, 6), TRAINER) = TRAINER THEN 512 ELSE 0)
                              + PRG_ROM_PAGE_SIZE * Get(img.data, 4)
                              + CHR_ROM_PAGE_SIZE * Get(img.data, 5)
           IN  /\ ~TagMagic(img) => ~last.val.ok
               /\ BitAnd(Get(img.data, 7), 12) = 8 => ~last.val.ok
               /\ ~complete => ~last.val.ok
               /\ ImageMapper(img) # 0 => ~last.val.ok

\* C36: trace(cpu) changes no CPU register or flag, no RAM byte, no PPU
\* state (VBlank bit, toggles, V, read buffer, OAM_ADDR), no joypad shift
\* state and no cycle counter, for every opcode and operand address.
C36_TraceIsObserverOnly ==
    [][ last'.op = "trace" => cpu' = cpu /\ bus' = bus ]_vars

\* C40: from CPU::new on, after any executed instructions and serviced
\* interrupts the live status register has bit 5 set and bit 4 clear.
C40_LiveStatusBits ==
    BitAt(cpu.flags, 5) = 1 /\ BitAt(cpu.flags, 4) = 0

\* BRK has been serviced through interrupt() and its handler has returned
\* with RTI
C40_Witness ==
    /\ last.op = "step" /\ last.code = 64 /\ ops = 2
    /\ Get(bus.space, ProgStart) = 0
    /\ Contains(cpu.flags, BREAK2) /\ ~Contains(cpu.flags, BREAK)

====
